---------------------------- MODULE Spec2Model ----------------------------
(***************************************************************************)
(* A model of the sudoku solver: the board (sudoku.py), the elimination    *)
(* contract and the scheduler (playbook.py), the baseline and the level-1  *)
(* techniques (strategy/singleton.py, naked_group.py, intersection.py,     *)
(* hidden_group.py) and the trial search (strategy/trial.py).              *)
(*                                                                         *)
(* Conventions.  A cell is its row-major index 0..80.  A Node is a record  *)
(* [value, preset, has, hints]: value 0 is "incomplete", has = FALSE is    *)
(* the Python `hints is None`.  A grid is the list of lists a Sudoku holds *)
(* in self.nodes; grids live in a heap (the variable grids) and a Sudoku   *)
(* refers to its grid by identity, as Python does.  A call that can raise  *)
(* LogicException returns a record [g, st, ch]: the grid as the call left  *)
(* it, st = "raise" when the exception escaped, ch the returned boolean.   *)
(* Python sets of nodes and of hints are iterated in ascending order.      *)
(***************************************************************************)
EXTENDS Integers, Sequences, FiniteSets, TLC

Cells == 0..80
Values == 1..9

Min(S) == CHOOSE x \in S : \A y \in S : x <= y

\* ------------------------------------------------------------------------
\* sudoku.py: Node
\* ------------------------------------------------------------------------

\* Node.__init__: a value given at construction makes the node preset.
Node(value) == [value |-> value, preset |-> value > 0, has |-> FALSE, hints |-> {}]

is_complete(n) == n.value # 0

\* Node.set_value: store the value and reset the hints.
set_value(n, v) == [n EXCEPT !.value = v, !.has = FALSE, !.hints = {}]

\* Node.set_hints: intersect with the present hints, report a change.
set_hints(n, hints) ==
    LET copy == IF n.has THEN hints \cap n.hints ELSE hints
    IN  IF n.has /\ copy = n.hints
        THEN [n |-> n, st |-> "ok", ch |-> FALSE]
        ELSE [n |-> [n EXCEPT !.has = TRUE, !.hints = copy], st |-> "ok", ch |-> TRUE]

\* Node.update without its check for the empty set: the empty set is stored.
Node_update_unchecked(n, hints) ==
    LET h == IF n.has THEN hints \cap n.hints ELSE hints
    IN  IF Cardinality(h) = 1
        THEN [n |-> set_value(n, CHOOSE v \in h : TRUE), st |-> "ok", ch |-> TRUE]
        ELSE set_hints(n, h)

\* Node.update: never undo eliminations, raise on the empty set, resolve on
\* a single hint.
Node_update(n, hints) ==
    LET h == IF n.has THEN hints \cap n.hints ELSE hints
    IN  IF h = {} THEN [n |-> n, st |-> "raise", ch |-> FALSE]
        ELSE IF Cardinality(h) > 1 THEN set_hints(n, h)
        ELSE [n |-> set_value(n, CHOOSE v \in h : TRUE), st |-> "ok", ch |-> TRUE]

\* ------------------------------------------------------------------------
\* sudoku.py: Lot, Row, Col, Box, Sudoku.setup
\* ------------------------------------------------------------------------

RowOf(c) == c \div 9
ColOf(c) == c % 9
BoxOf(c) == ((RowOf(c) \div 3) * 3) + (ColOf(c) \div 3)

\* The ordered nodes of a lot, as Row/Col/Box.__init__ collect them.
RowNodes(i) == [k \in 1..9 |-> i * 9 + (k - 1)]
ColNodes(j) == [k \in 1..9 |-> (k - 1) * 9 + j]
BoxNodes(b) == [k \in 1..9 |->
                  ((b \div 3) * 3 + ((k - 1) \div 3)) * 9 + ((b % 3) * 3) + ((k - 1) % 3)]

\* Sudoku.setup: self.lots = rows + cols + boxes.
Lots == [k \in 1..27 |-> IF k <= 9 THEN RowNodes(k - 1)
                         ELSE IF k <= 18 THEN ColNodes(k - 10)
                         ELSE BoxNodes(k - 19)]

LotCells(lot) == {lot[k] : k \in 1..9}

\* Node.get_lots: (row, col, box) as indices into Lots.
get_lots(c) == <<RowOf(c) + 1, ColOf(c) + 10, BoxOf(c) + 19>>

\* The nodes of the three lots of each node.
Related ==
    [c \in Cells |-> {d \in Cells : RowOf(d) = RowOf(c) \/ ColOf(d) = ColOf(c)
                                     \/ BoxOf(d) = BoxOf(c)}]

\* Node.find_related: every node of the three lots, the node itself included.
find_related(c) == Related[c]

\* Lot.get_values: the SET of the values of the complete nodes.
get_values(g, lot) == {g[c].value : c \in {d \in LotCells(lot) : is_complete(g[d])}}

get_missing_values(g, lot) == Values \ get_values(g, lot)

\* Lot.get_incomplete / Sudoku.get_incomplete (as sets of cells).
Lot_get_incomplete(g, lot) == {c \in LotCells(lot) : ~is_complete(g[c])}
get_incomplete(g) == {c \in Cells : ~is_complete(g[c])}
Sudoku_is_complete(g) == get_incomplete(g) = {}

\* Lot.validate: compares the size of a set with the size of the same set,
\* so it never raises.
Lot_validate(g, lot) ==
    LET values == get_values(g, lot)
    IN  IF Cardinality(values) > Cardinality(values) THEN "raise" ELSE "ok"

\* Sudoku.validate: validate every lot.
Sudoku_validate(g) ==
    IF \E k \in 1..27 : Lot_validate(g, Lots[k]) = "raise" THEN "raise" ELSE "ok"

\* Lot.all_hints, Lot.other_nodes, Lot.exclusive_hints.
all_hints(g, nodes) == UNION {g[c].hints : c \in nodes}
other_nodes(g, lot, nodes) == Lot_get_incomplete(g, lot) \ nodes
Lot_exclusive_hints(g, lot, nodes) ==
    all_hints(g, nodes) \ all_hints(g, other_nodes(g, lot, nodes))

\* ------------------------------------------------------------------------
\* playbook.py: Strategy, the elimination contract.  The hooks enabled by
\* default (STAT, SNAP) return True from pre_update and post_update, so no
\* update is vetoed.
\* ------------------------------------------------------------------------

Ok(g, ch) == [g |-> g, st |-> "ok", ch |-> ch]
Raise(g) == [g |-> g, st |-> "raise", ch |-> FALSE]

\* The statements F that follow a call with result r: they are skipped,
\* and the exception goes on, when the call raised an exception.
Then(r, F(_)) == IF r.st # "ok" THEN r ELSE F(r)

\* F applied to the value v.
With(v, F(_)) == F(v)

\* Strategy.test_purge: would purging the hints change some node.
test_purge(g, nodes, hints) ==
    \E c \in nodes : ~is_complete(g[c]) /\ g[c].hints \cap hints # {}

\* Strategy.test_update: would keeping only the hints change some node.
test_update(g, nodes, hints) ==
    \E c \in nodes : ~is_complete(g[c]) /\ g[c].hints \ hints # {}

\* update_node ends with `for x in node.find_related(): refresh_node(x)`,
\* and refresh_node may call update_node again.  No caller uses what these
\* nested refresh_node calls return, and an exception leaves them all, so
\* the nested calls are the calls of a list of pending nodes, the related
\* nodes of a node that became complete put in front of the rest.  The
\* operators named *_only are the methods up to that loop; `due` tells
\* that the node became complete, so that the loop is due.

Only(g, st, ch, due) == [g |-> g, st |-> st, ch |-> ch, due |-> due]

\* Strategy.update_node up to its loop over the related nodes: Node.update,
\* whose returned value is ignored, and `return True`.
update_node_only(g, c, hints) ==
    LET u == Node_update(g[c], hints)
    IN  IF u.st = "raise" THEN Only(g, "raise", FALSE, FALSE)
        ELSE Only([g EXCEPT ![c] = u.n], "ok", TRUE, is_complete(u.n))

\* The body of the loop of Strategy.purge_hints for the node c.
purge_hints_only(g, c, hints) ==
    IF is_complete(g[c]) \/ ~test_purge(g, {c}, hints) THEN Only(g, "ok", FALSE, FALSE)
    ELSE update_node_only(g, c, g[c].hints \ hints)

\* Strategy.update_hints leaving alone a node that holds none of the hints.
update_hints_lenient(g, c, hints) ==
    IF is_complete(g[c]) \/ g[c].hints \cap hints = {} THEN Only(g, "ok", FALSE, FALSE)
    ELSE purge_hints_only(g, c, g[c].hints \ hints)

\* The body of the loop of Strategy.update_hints for the node c.
update_hints_only(g, c, hints) ==
    IF is_complete(g[c]) THEN Only(g, "ok", FALSE, FALSE)
    ELSE purge_hints_only(g, c, g[c].hints \ hints)

\* Strategy.refresh_node.
refresh_node_only(g, c) ==
    IF is_complete(g[c]) THEN Only(g, "ok", FALSE, FALSE)
    ELSE LET L == get_lots(c)
             hints == get_missing_values(g, Lots[L[1]])
                      \cap get_missing_values(g, Lots[L[2]])
                      \cap get_missing_values(g, Lots[L[3]])
         IN  IF hints = {} THEN Only(g, "raise", FALSE, FALSE)
             ELSE IF ~g[c].has THEN update_node_only(g, c, hints)
             ELSE update_hints_only(g, c, hints)

\* The nodes of S in ascending order.
Sorted(S) == [i \in 1..Cardinality(S) |->
                CHOOSE x \in S : Cardinality({y \in S : y < x}) = i - 1]

\* The next pending refresh_node call of m = [g, st, todo].
refresh_next(m) ==
    With(refresh_node_only(m.g, Head(m.todo)),
         LAMBDA r : [g |-> r.g, st |-> r.st,
                     todo |-> IF r.due THEN Sorted(find_related(Head(m.todo))) \o Tail(m.todo)
                              ELSE Tail(m.todo)])

RECURSIVE refresh_pending(_, _)
\* At most n pending refresh_node calls of m, until none is left or one
\* raises; the n calls are made as two halves, one after the other.
refresh_pending(m, n) ==
    IF m.st = "raise" \/ m.todo = <<>> THEN m
    ELSE IF n = 1 THEN refresh_next(m)
    ELSE refresh_pending(refresh_pending(m, n \div 2), n - (n \div 2))

\* No more pending calls than this: each one takes a node off the list,
\* and each of the 81 nodes becomes complete once, adding its 21 related.
MaxPending == (Cardinality(Cells) + 1) * 21

\* Strategy.update_node without its loop over the related nodes.
Cascade_skipped(r, c) == IF r.st = "raise" THEN Raise(r.g) ELSE Ok(r.g, r.ch)

\* The loop of Strategy.update_node over node.find_related(), when due.
Cascade(r, c) ==
    IF r.st = "raise" THEN Raise(r.g)
    ELSE IF ~r.due THEN Ok(r.g, r.ch)
    ELSE With(refresh_pending([g |-> r.g, st |-> "ok", todo |-> Sorted(find_related(c))],
                              MaxPending),
              LAMBDA m : IF m.st = "raise" THEN Raise(m.g) ELSE Ok(m.g, r.ch))

\* Strategy.update_node.
update_node(g, c, hints) == Cascade(update_node_only(g, c, hints), c)

\* Strategy.refresh_node.
refresh_node(g, c) == Cascade(refresh_node_only(g, c), c)

RECURSIVE purge_loop(_, _, _, _)
\* The loop of Strategy.purge_hints over its nodes; status is the value
\* accumulated so far.
purge_loop(g, todo, hints, status) ==
    IF todo = {} THEN Ok(g, status)
    ELSE Then(Cascade(purge_hints_only(g, Min(todo), hints), Min(todo)),
              LAMBDA r : purge_loop(r.g, todo \ {Min(todo)}, hints, status \/ r.ch))

\* Strategy.purge_hints.
purge_hints(g, nodes, hints) == purge_loop(g, nodes, hints, FALSE)

RECURSIVE update_loop(_, _, _, _)
\* The loop of Strategy.update_hints: purge from each incomplete node the
\* hints it holds beyond the given ones.
update_loop(g, todo, hints, status) ==
    IF todo = {} THEN Ok(g, status)
    ELSE Then(Cascade(update_hints_only(g, Min(todo), hints), Min(todo)),
              LAMBDA r : update_loop(r.g, todo \ {Min(todo)}, hints, status \/ r.ch))

\* Strategy.update_hints.
update_hints(g, nodes, hints) == update_loop(g, nodes, hints, FALSE)

\* ------------------------------------------------------------------------
\* strategy/singleton.py
\* ------------------------------------------------------------------------

RECURSIVE singleton_range(_, _, _)
\* The comprehension of Singleton.run over the nodes lo..hi in row-major
\* order, made as two halves, one after the other; any() of the results.
singleton_range(g, lo, hi) ==
    IF lo = hi THEN refresh_node(g, lo)
    ELSE Then(singleton_range(g, lo, (lo + hi) \div 2),
              LAMBDA r : Then(singleton_range(r.g, ((lo + hi) \div 2) + 1, hi),
                              LAMBDA r2 : Ok(r2.g, r.ch \/ r2.ch)))

\* Singleton.run.
Singleton_run(g) == singleton_range(g, 0, 80)

\* ------------------------------------------------------------------------
\* strategy/naked_group.py
\* ------------------------------------------------------------------------

\* itertools.combinations yields the combinations of one size in the
\* lexicographic order of the positions of their members.
LexLess(T, U) == Min((T \ U) \cup (U \ T)) \in T
FirstCombo(todo) == CHOOSE T \in todo : \A U \in todo \ {T} : LexLess(T, U)
Combinations(nodes, i) == {T \in SUBSET nodes : Cardinality(T) = i}

RECURSIVE naked_combos(_, _, _, _)
\* The inner loop of find_naked_groups over the candidates of one size.
naked_combos(g, nodes, todo, groups) ==
    IF todo = {} THEN [nodes |-> nodes, groups |-> groups, st |-> "ok"]
    ELSE LET candidate == FirstCombo(todo)
             rest == todo \ {candidate}
             hints == all_hints(g, candidate)
         IN  IF ~(candidate \subseteq nodes) THEN naked_combos(g, nodes, rest, groups)
             ELSE IF Cardinality(hints) < Cardinality(candidate)
                  THEN [nodes |-> nodes, groups |-> groups, st |-> "raise"]
             ELSE IF Cardinality(hints) > Cardinality(candidate)
                  THEN naked_combos(g, nodes, rest, groups)
             ELSE naked_combos(g, nodes \ candidate, rest,
                               Append(groups, [hints |-> hints, group |-> candidate]))

RECURSIVE naked_sizes(_, _, _, _, _)
\* The outer loop `for i in range(1, len(nodes))`, its range fixed on entry.
naked_sizes(g, nodes, i, n, groups) ==
    IF i >= n THEN [nodes |-> nodes, groups |-> groups, st |-> "ok"]
    ELSE Then(naked_combos(g, nodes, Combinations(nodes, i), groups),
              LAMBDA r : naked_sizes(g, r.nodes, i + 1, n, r.groups))

\* NakedGroup.find_naked_groups.
find_naked_groups(g, lot) ==
    LET nodes == Lot_get_incomplete(g, lot)
    IN  naked_sizes(g, nodes, 1, Cardinality(nodes), <<>>)

RECURSIVE naked_purge(_, _, _, _, _)
\* The loop of NakedGroup.naked_group over the groups found.
naked_purge(g, lot, groups, k, status) ==
    IF k > Len(groups) THEN Ok(g, status)
    ELSE IF test_purge(g, other_nodes(g, lot, groups[k].group), groups[k].hints)
         THEN Then(purge_hints(g, other_nodes(g, lot, groups[k].group), groups[k].hints),
                   LAMBDA r : naked_purge(r.g, lot, groups, k + 1, TRUE))
         ELSE naked_purge(g, lot, groups, k + 1, status)

\* NakedGroup.naked_group.
naked_group(g, lot) ==
    With(find_naked_groups(g, lot),
         LAMBDA f : IF f.st = "raise" THEN Raise(g)
                    ELSE naked_purge(g, lot, f.groups, 1, FALSE))

RECURSIVE naked_lots(_, _, _)
naked_lots(g, k, status) ==
    IF k > 27 THEN Ok(g, status)
    ELSE Then(naked_group(g, Lots[k]),
              LAMBDA r : naked_lots(r.g, k + 1, status \/ r.ch))

\* NakedGroup.run: every lot, any() of the results.
NakedGroup_run(g) == naked_lots(g, 1, FALSE)

\* The STEP hook: what the user may answer to its prompt ("n" next, "s" skip).
Answers == {"n", "s"}

\* Step.pre_update for a mutation that carries a reason: SINGLETON and the
\* trial techniques are never prompted; for the others "s" is a veto.
pre_update(name, answer) ==
    name = "SINGLETON" \/ name \in {"TRIAL-1", "TRIAL-2", "TRIAL-3"} \/ answer # "s"

\* Strategy.purge_hints under the STEP hook, the user giving the same answer
\* to every prompt: a vetoed update_node returns False before node.update.
purge_hints_stepped(g, nodes, hints, name, answer) ==
    IF pre_update(name, answer) THEN purge_hints(g, nodes, hints) ELSE Ok(g, FALSE)

RECURSIVE naked_purge_stepped(_, _, _, _, _, _)
\* The loop of NakedGroup.naked_group under the STEP hook.
naked_purge_stepped(g, lot, groups, k, status, answer) ==
    IF k > Len(groups) THEN Ok(g, status)
    ELSE IF test_purge(g, other_nodes(g, lot, groups[k].group), groups[k].hints)
         THEN Then(purge_hints_stepped(g, other_nodes(g, lot, groups[k].group),
                                       groups[k].hints, "NAKED-GROUP", answer),
                   LAMBDA r : naked_purge_stepped(r.g, lot, groups, k + 1, TRUE, answer))
         ELSE naked_purge_stepped(g, lot, groups, k + 1, status, answer)

\* NakedGroup.naked_group under the STEP hook.
naked_group_stepped(g, lot, answer) ==
    With(find_naked_groups(g, lot),
         LAMBDA f : IF f.st = "raise" THEN Raise(g)
                    ELSE naked_purge_stepped(g, lot, f.groups, 1, FALSE, answer))

RECURSIVE naked_lots_stepped(_, _, _, _)
naked_lots_stepped(g, k, status, answer) ==
    IF k > 27 THEN Ok(g, status)
    ELSE Then(naked_group_stepped(g, Lots[k], answer),
              LAMBDA r : naked_lots_stepped(r.g, k + 1, status \/ r.ch, answer))

\* NakedGroup.run under the STEP hook.
NakedGroup_stepped(g, answer) == naked_lots_stepped(g, 1, FALSE, answer)

\* ------------------------------------------------------------------------
\* strategy/hidden_group.py
\* ------------------------------------------------------------------------

RECURSIVE hidden_combos(_, _, _, _, _)
\* The inner loop of find_hidden_groups over the candidates of one size.
hidden_combos(g, lot, nodes, todo, groups) ==
    IF todo = {} THEN [nodes |-> nodes, groups |-> groups, st |-> "ok"]
    ELSE LET candidate == FirstCombo(todo)
             rest == todo \ {candidate}
             hints == Lot_exclusive_hints(g, lot, candidate)
         IN  IF ~(candidate \subseteq nodes) THEN hidden_combos(g, lot, nodes, rest, groups)
             ELSE IF Cardinality(hints) > Cardinality(candidate)
                  THEN [nodes |-> nodes, groups |-> groups, st |-> "raise"]
             ELSE IF Cardinality(hints) < Cardinality(candidate)
                  THEN hidden_combos(g, lot, nodes, rest, groups)
             ELSE hidden_combos(g, lot, nodes \ candidate, rest,
                    IF hints # all_hints(g, candidate) /\ hints \subseteq all_hints(g, candidate)
                    THEN Append(groups, [hints |-> hints, group |-> candidate])
                    ELSE groups)

RECURSIVE hidden_sizes(_, _, _, _, _, _)
hidden_sizes(g, lot, nodes, i, n, groups) ==
    IF i >= n THEN [nodes |-> nodes, groups |-> groups, st |-> "ok"]
    ELSE Then(hidden_combos(g, lot, nodes, Combinations(nodes, i), groups),
              LAMBDA r : hidden_sizes(g, lot, r.nodes, i + 1, n, r.groups))

\* HiddenGroup.find_hidden_groups.
find_hidden_groups(g, lot) ==
    LET nodes == Lot_get_incomplete(g, lot)
    IN  hidden_sizes(g, lot, nodes, 1, Cardinality(nodes), <<>>)

RECURSIVE hidden_update(_, _, _, _)
\* The loop of HiddenGroup.hidden_group over the groups found.
hidden_update(g, groups, k, status) ==
    IF k > Len(groups) THEN Ok(g, status)
    ELSE IF test_update(g, groups[k].group, groups[k].hints)
         THEN Then(update_hints(g, groups[k].group, groups[k].hints),
                   LAMBDA r : hidden_update(r.g, groups, k + 1, TRUE))
         ELSE hidden_update(g, groups, k + 1, status)

\* HiddenGroup.hidden_group.
hidden_group(g, lot) ==
    With(find_hidden_groups(g, lot),
         LAMBDA f : IF f.st = "raise" THEN Raise(g)
                    ELSE hidden_update(g, f.groups, 1, FALSE))

RECURSIVE hidden_lots(_, _, _)
hidden_lots(g, k, status) ==
    IF k > 27 THEN Ok(g, status)
    ELSE Then(hidden_group(g, Lots[k]),
              LAMBDA r : hidden_lots(r.g, k + 1, status \/ r.ch))

\* HiddenGroup.run.
HiddenGroup_run(g) == hidden_lots(g, 1, FALSE)

\* ------------------------------------------------------------------------
\* strategy/intersection.py
\* ------------------------------------------------------------------------

\* Intersection.intersection_nodes: the incomplete nodes of the i-th group
\* of three of the lot (taken with stride 3 when transposed).
intersection_nodes(g, lot, i, transposed) ==
    {c \in {IF transposed THEN lot[j * 3 + i + 1] ELSE lot[i * 3 + j + 1] : j \in 0..2} :
        ~is_complete(g[c])}

\* Strategy.exclusive_hints: over the lots common to all the nodes.
Strategy_exclusive_hints(g, nodes) ==
    LET lots == {k \in 1..27 : \A c \in nodes : \E m \in 1..3 : get_lots(c)[m] = k}
    IN  UNION {Lot_exclusive_hints(g, Lots[k], nodes) : k \in lots}

\* One iteration of the loops of intersect_line and intersect_box: purge the
\* exclusive hints from the other nodes of the crossing lot.
intersect_step(g, nodes, hints, cross, status) ==
    IF nodes = {} \/ hints = {} THEN Ok(g, status)
    ELSE IF test_purge(g, other_nodes(g, Lots[cross], nodes), hints)
         THEN Then(purge_hints(g, other_nodes(g, Lots[cross], nodes), hints),
                   LAMBDA r : Ok(r.g, TRUE))
         ELSE Ok(g, status)

RECURSIVE intersect_line_loop(_, _, _, _)
intersect_line_loop(g, k, i, status) ==
    IF i > 2 THEN Ok(g, status)
    ELSE LET nodes == intersection_nodes(g, Lots[k], i, FALSE)
             hints == Lot_exclusive_hints(g, Lots[k], nodes)
         IN  Then(intersect_step(g, nodes, hints,
                                 IF nodes = {} THEN k ELSE get_lots(Min(nodes))[3], status),
                  LAMBDA r : intersect_line_loop(r.g, k, i + 1, r.ch))

\* Intersection.intersect_line, for the row or column Lots[k].
intersect_line(g, k) == intersect_line_loop(g, k, 0, FALSE)

RECURSIVE intersect_box_loop(_, _, _, _, _)
intersect_box_loop(g, k, i, transposed, status) ==
    IF i > 2 THEN Ok(g, status)
    ELSE LET nodes == intersection_nodes(g, Lots[k], i, transposed)
             hints == Strategy_exclusive_hints(g, nodes)
         IN  Then(intersect_step(g, nodes, hints,
                                 IF nodes = {} THEN k
                                 ELSE get_lots(Min(nodes))[IF transposed THEN 2 ELSE 1],
                                 status),
                  LAMBDA r : intersect_box_loop(r.g, k, i + 1, transposed, r.ch))

\* Intersection.intersect_box, for the box Lots[k]: by rows, then by columns.
intersect_box(g, k) ==
    Then(intersect_box_loop(g, k, 0, FALSE, FALSE),
         LAMBDA r : intersect_box_loop(r.g, k, 0, TRUE, r.ch))

RECURSIVE intersection_lots(_, _, _)
intersection_lots(g, k, status) ==
    IF k > 27 THEN Ok(g, status)
    ELSE Then(IF k <= 18 THEN intersect_line(g, k) ELSE intersect_box(g, k),
              LAMBDA r : intersection_lots(r.g, k + 1, status \/ r.ch))

\* Intersection.run: the rows, the columns, then the boxes.
Intersection_run(g) == intersection_lots(g, 1, FALSE)

\* ------------------------------------------------------------------------
\* playbook.py: Options, Plan, Playbook
\* ------------------------------------------------------------------------

\* Options.DEFAULT_LEVELS.
DEFAULT_LEVELS ==
    ("SINGLETON" :> 0) @@
    ("NAKED-GROUP" :> 1) @@ ("INTERSECTION" :> 1) @@ ("HIDDEN-GROUP" :> 1) @@
    ("X-WING" :> 2) @@ ("SIMPLE-COLORING" :> 2) @@ ("XYZ-WING" :> 2) @@ ("Y-WING" :> 2) @@
    ("X-CYCLE" :> 10) @@ ("XY-CHAIN" :> 11) @@ ("3D-MEDUSA" :> 12) @@
    ("SWORD-FISH" :> 13) @@ ("ALS" :> 14) @@
    ("GROUPED-X-CYCLE" :> 20) @@ ("UNIQUE-RECTANGLE" :> 21) @@ ("WXYZ-WING" :> 22) @@
    ("APE" :> 30) @@ ("JELLY-FISH" :> 31) @@
    ("FINNED X-WING" :> 40) @@ ("FINNED SWORD-FISH" :> 41) @@ ("AIC" :> 42) @@
    ("DIGIT FORCING-CHAIN" :> 50) @@ ("NISHIO FORCING-CHAIN" :> 51) @@
    ("GROUPED-AIC" :> 60) @@
    ("TRIAL-1" :> 97) @@ ("TRIAL-2" :> 98) @@ ("TRIAL-3" :> 99)

\* Playbook.catalog: the names the strategy classes register under.  The
\* first seven are the techniques whose run() this module models.
Modelled == <<"SINGLETON", "NAKED-GROUP", "INTERSECTION", "HIDDEN-GROUP",
              "TRIAL-1", "TRIAL-2", "TRIAL-3">>
Unmodelled ==
           <<"X-WING", "SWORD-FISH", "JELLY-FISH", "FINNED X-WING", "FINNED SWORD-FISH",
             "SIMPLE-COLORING", "3D-MEDUSA", "XYZ-WING", "Y-WING", "X-CYCLE",
             "GROUPED-X-CYCLE", "AIC", "GROUPED-AIC", "XY-CHAIN", "ALS",
             "UNIQUE-RECTANGLE", "WXYZ-WING", "APE", "NISHIO FORCING-CHAIN",
             "DIGIT FORCING-CHAIN", "DEATH-BLOSSOM">>
Catalog == Modelled \o Unmodelled

\* Playbook.catalog is a dictionary, so the order of Playbook.all_strategies()
\* is the order the build iterates a dictionary in.  Only the order of the
\* modelled techniques that share a level shows in a plan: the orders of
\* the three techniques of level 1.
Catalogs ==
    {<<"SINGLETON", a, b, c, "TRIAL-1", "TRIAL-2", "TRIAL-3">> \o Unmodelled :
        <<a, b, c>> \in {<<"NAKED-GROUP", "INTERSECTION", "HIDDEN-GROUP">>,
                        <<"NAKED-GROUP", "HIDDEN-GROUP", "INTERSECTION">>,
                        <<"INTERSECTION", "NAKED-GROUP", "HIDDEN-GROUP">>,
                        <<"INTERSECTION", "HIDDEN-GROUP", "NAKED-GROUP">>,
                        <<"HIDDEN-GROUP", "NAKED-GROUP", "INTERSECTION">>,
                        <<"HIDDEN-GROUP", "INTERSECTION", "NAKED-GROUP">>}}
Names == {Catalog[k] : k \in 1..Len(Catalog)}
ModelledNames == {Modelled[k] : k \in 1..Len(Modelled)}
TrialNames == {"TRIAL-1", "TRIAL-2", "TRIAL-3"}

\* Options.__init__: an empty dictionary of explicit settings, the default
\* levels.
Options_init == [options |-> <<>>, levels |-> DEFAULT_LEVELS]

\* Options.copy.
Options_copy(o) == [options |-> o.options, levels |-> o.levels]

\* Options.enabled: the explicit setting, else Strategy.default() (True).
enabled(o, s) == IF s \in DOMAIN o.options THEN o.options[s] ELSE TRUE

\* Options.disable.
disable(o, s) ==
    [o EXCEPT !.options = [n \in (DOMAIN o.options) \cup {s} |->
                              IF n = s THEN FALSE ELSE o.options[n]]]

\* Options.get_level.
get_level(o, s) == IF s \in DOMAIN o.levels THEN o.levels[s] ELSE 100

\* Strategy.one_shot, overridden by Singleton.one_shot alone.  No caller
\* consults it.
one_shot(s) == s = "SINGLETON"

\* Playbook.get_plan: Plan.strategies maps a level to the enabled strategies
\* of that level, in catalog order; here as the list of its items sorted by
\* level, the order Plan.iterate visits them in.
RECURSIVE sorted_levels(_)
sorted_levels(S) ==
    IF S = {} THEN <<>> ELSE <<Min(S)>> \o sorted_levels(S \ {Min(S)})

get_plan(o, catalog) ==
    LET on == SelectSeq(catalog, LAMBDA s : enabled(o, s))
        levels == sorted_levels({get_level(o, on[k]) : k \in 1..Len(on)})
    IN  [k \in 1..Len(levels) |->
            [level |-> levels[k],
             strategies |-> SelectSeq(on, LAMBDA s : get_level(o, s) = levels[k])]]

RECURSIVE disable_high(_, _, _)
\* The loop of Trial.try_hints over Playbook.all_strategies().
disable_high(o, catalog, k) ==
    IF k > Len(catalog) THEN o
    ELSE disable_high(IF get_level(o, catalog[k]) > 1 THEN disable(o, catalog[k]) ELSE o,
                      catalog, k + 1)

\* Trial.try_hints without its loop over the strategies: a plain copy.
trial_options_copied(o, catalog) == Options_copy(o)

\* Trial.try_hints: the options of a trial run.
trial_options(o, catalog) == disable_high(Options_copy(o), catalog, 1)

\* Sudoku.snap: a new grid of new nodes built from the values alone.
snap(g) == [c \in Cells |-> Node(g[c].value)]

RECURSIVE set_hypotheses(_, _, _)
\* The loop of Trial.try_hints that sets each hinted value on the copy.
set_hypotheses(g, hints, k) ==
    IF k > Len(hints) THEN g
    ELSE set_hypotheses([g EXCEPT ![hints[k][1]] = set_value(@, hints[k][2])], hints, k + 1)

\* Plan.done: complete, and then validated.
done(g) ==
    IF ~Sudoku_is_complete(g) THEN [st |-> "ok", ch |-> FALSE]
    ELSE [st |-> Sudoku_validate(g), ch |-> TRUE]

\* ------------------------------------------------------------------------
\* The puzzles and the options the model is run on
\* ------------------------------------------------------------------------

\* A solved grid, row-major.
Solution ==
    << 8,5,7,1,2,6,9,3,4,
       3,6,9,7,8,4,1,2,5,
       4,2,1,5,9,3,6,7,8,
       9,1,2,4,6,5,3,8,7,
       5,8,4,3,7,9,2,1,6,
       7,3,6,8,1,2,5,4,9,
       1,7,3,9,5,8,4,6,2,
       2,4,5,6,3,7,8,9,1,
       6,9,8,2,4,1,7,5,3 >>

\* Sets of cells to blank.  A puzzle blanks the union of some of them.
Patterns ==
    << {9, 14, 18, 23},
       {56, 58, 65, 67},
       {2, 3, 4, 6, 11, 12, 15, 20, 22, 48, 49, 50, 75, 77},
       {40},
       {19, 20, 28, 29, 30, 34, 37, 39, 46, 48, 52} >>

\* Clues to overwrite with a wrong digit: <<cell, digit>>.
Corruptions == << <<44, 9>>, <<44, 7>> >>

\* Candidate lists a puzzle text may give for its blank cells.
Lists == << 1..9, {1, 2} >>

\* The sets of techniques a run enables; every other one is disabled.
OptionSets ==
    << {"SINGLETON", "NAKED-GROUP", "INTERSECTION", "HIDDEN-GROUP",
        "TRIAL-1", "TRIAL-2", "TRIAL-3"},
       {"SINGLETON", "NAKED-GROUP", "INTERSECTION", "HIDDEN-GROUP"},
       {"SINGLETON", "TRIAL-2"},
       {"SINGLETON", "TRIAL-3"},
       {"SINGLETON", "TRIAL-1"},
       {"SINGLETON"} >>

\* At most this many cells of a puzzle are blank.
MaxHoles == 14

\* The sets of blank cells of the puzzles.
HoleSets ==
    {holes \in {UNION {Patterns[p] : p \in ps} : ps \in SUBSET (1..Len(Patterns))} :
        Cardinality(holes) <= MaxHoles}

\* The items Sudoku.load finds in a puzzle text: item c is a digit (0 for a
\* blank) or a bracketed list of candidates.  The blanks of the puzzle are
\* the cells of holes, given as 0 (li = 0) or as the list Lists[li]; the
\* clue Corruptions[co] is wrong (co = 0: none).
Items(holes, co, li) ==
    [c \in Cells |->
        IF c \in holes
        THEN [digit |-> 0, list |-> IF li = 0 THEN {} ELSE Lists[li]]
        ELSE [digit |-> IF co # 0 /\ Corruptions[co][1] = c THEN Corruptions[co][2]
                        ELSE Solution[c + 1],
              list |-> {}]]

\* Sudoku.load: a Node per item; a bracketed list becomes the hints of a
\* Node(0).
load(items) ==
    [c \in Cells |-> IF items[c].list # {} THEN set_hints(Node(0), items[c].list).n
                     ELSE Node(items[c].digit)]

\* No board: 81 nodes that hold nothing.
BlankNodes == [c \in Cells |-> Node(0)]

\* Sudoku.setup: the constructor of each row, column and box validates it.
Sudoku_setup(g) == Sudoku_validate(g)

\* Sudoku.load on 81 items: the nodes, then Sudoku.__init__ and its setup.
Sudoku_load(items) == [g |-> load(items), st |-> Sudoku_setup(load(items))]

\* Sudoku.save: the text, as the pieces it is put together from, one per
\* node.  A complete node gives its digit; an incomplete one gives "0", or
\* with hints = True the list str(sorted(node.get_hints())), and sorted()
\* raises TypeError when get_hints() returns None.
save_piece(n, hints) ==
    IF is_complete(n) THEN [kind |-> "digit", digit |-> n.value, list |-> <<>>]
    ELSE IF ~hints THEN [kind |-> "digit", digit |-> 0, list |-> <<>>]
    ELSE [kind |-> "list", digit |-> 0, list |-> Sorted(n.hints)]

save(g, hints) ==
    IF hints /\ \E c \in Cells : ~is_complete(g[c]) /\ ~g[c].has
    THEN [st |-> "TypeError", text |-> <<>>]
    ELSE [st |-> "ok", text |-> [k \in 1..Cardinality(Cells) |-> save_piece(g[k - 1], hints)]]

\* The items re.findall of Sudoku.load finds in one piece of a text: the
\* digit; the list, if it has two to nine elements; the digit inside the
\* brackets of a list of one element; nothing in "[]".
findall_piece(p) ==
    IF p.kind = "digit" THEN <<[digit |-> p.digit, list |-> {}]>>
    ELSE IF Len(p.list) >= 2
         THEN <<[digit |-> 0, list |-> {p.list[i] : i \in 1..Len(p.list)}]>>
    ELSE [i \in 1..Len(p.list) |-> [digit |-> p.list[i], list |-> {}]]

RECURSIVE findall_range(_, _, _)
\* re.findall over the pieces lo..hi of a text, as two halves.
findall_range(text, lo, hi) ==
    IF lo > hi THEN <<>>
    ELSE IF lo = hi THEN findall_piece(text[lo])
    ELSE findall_range(text, lo, (lo + hi) \div 2)
            \o findall_range(text, (lo + hi) \div 2 + 1, hi)

findall(text) == findall_range(text, 1, Len(text))

\* Sudoku.load of the items found: ValueException unless they are 81.
Sudoku_load_items(items) ==
    IF Len(items) # Cardinality(Cells)
    THEN [g |-> BlankNodes, st |-> "ValueException"]
    ELSE Sudoku_load([c \in Cells |-> items[c + 1]])

\* Sudoku.load of a text.
Sudoku_load_text(text) == Sudoku_load_items(findall(text))

RECURSIVE disable_all(_, _)
disable_all(o, S) ==
    IF S = {} THEN o
    ELSE LET s == CHOOSE x \in S : TRUE IN disable_all(disable(o, s), S \ {s})

\* The options of a run that enables exactly the given techniques.
OptionsFor(on) == disable_all(Options_init, Names \ on)

\* ------------------------------------------------------------------------
\* The state
\* ------------------------------------------------------------------------

VARIABLES
    grids,    \* the heap of grids: grid id -> [cell -> Node]
    sudoku,   \* the grid the master Sudoku's self.nodes refers to
    trial,    \* the grid of the trial Sudoku of the running try_hints, 0 if none
    catalog,  \* Playbook.catalog.values(), in the order the build iterates it
    options,  \* options[1] of the master plan, options[2] of the trial plan
    plans,    \* plans[1] the master plan, plans[2] the trial plan
    sch,      \* sch[f]: where Plan.attack / Plan.iterate of plan f stands
    tr,       \* where the running TrialOne/Two/Three.run stands (start: history,
              \* the master grid when run() was entered)
    passlog,  \* history: the executions of the current Plan.iterate call of each plan
    nsingle,  \* history: executions of SINGLETON in the current Plan.attack of each plan
    before,   \* history: the master grid when the running try_hints was entered
    tally,    \* history: how the attempts with the present first hypothesis ended
    ev        \* history: what the last step did

vars == <<grids, sudoku, trial, catalog, options, plans, sch, tr, passlog, nsingle,
          before, tally, ev>>

Idle == [at |-> "idle", level |-> 0, idx |-> 0, status |-> FALSE]
NoTrial == [name |-> "", arity |-> 0, stage |-> "none", start |-> <<>>, cursor |-> <<>>, invalid |-> TRUE]
NoEvent == [kind |-> "none"]
NoTally == [raised |-> 0, impasse |-> 0]
BlankGrid == [c \in Cells |-> Node(0)]

\* plan.get_sudoku().nodes of plan f.
GridOf(f) == IF f = 1 THEN sudoku ELSE trial
Board(f) == grids[GridOf(f)]

\* The technique Plan.iterate of plan f is about to execute.
Current(f) == plans[f][sch[f].level].strategies[sch[f].idx]
CurrentLevel(f) == plans[f][sch[f].level].level

\* game.py: Sudoku.load of the puzzle text, then Playbook.solve up to the
\* call of Plan.attack.  The puzzle is one of HoleSets, or the empty puzzle
\* of 81 blanks, which is solved with SINGLETON only.
Init ==
    /\ catalog \in Catalogs
    /\ \E holes \in HoleSets \cup {Cells}, co \in 0..Len(Corruptions), k \in 1..Len(OptionSets) :
          /\ Sudoku_load(Items(holes, co, 0)).st = "ok"
          /\ holes = Cells => (co = 0 /\ OptionSets[k] = {"SINGLETON"})
          /\ grids = <<Sudoku_load(Items(holes, co, 0)).g, BlankGrid>>
          /\ options = <<OptionsFor(OptionSets[k]), Options_init>>
          /\ plans = <<get_plan(OptionsFor(OptionSets[k]), catalog), <<>> >>
    /\ sudoku = 1
    /\ trial = 0
    /\ sch = <<[at |-> "attack", level |-> 0, idx |-> 0, status |-> FALSE], Idle>>
    /\ tr = NoTrial
    /\ passlog = << <<>>, <<>> >>
    /\ nsingle = <<0, 0>>
    /\ before = BlankGrid
    /\ tally = NoTally
    /\ ev = NoEvent

\* ------------------------------------------------------------------------
\* playbook.py: Plan.attack, Plan.iterate, Strategy.execute
\* ------------------------------------------------------------------------

Raised(f) == [sch[f] EXCEPT !.at = "raised"]

\* Plan.attack, at the head of its loop: `while not self.done()`, then the
\* entry of Plan.iterate.
Attack(f) ==
    /\ sch[f].at = "attack"
    /\ LET d == done(Board(f))
       IN  sch' = [sch EXCEPT ![f] =
                     IF d.st = "raise" THEN Raised(f)
                     ELSE IF d.ch THEN [@ EXCEPT !.at = "success"]
                     ELSE IF Len(plans[f]) = 0 THEN [@ EXCEPT !.at = "impasse"]
                     ELSE [at |-> "iterate", level |-> 1, idx |-> 1, status |-> FALSE]]
    /\ passlog' = [passlog EXCEPT ![f] = <<>>]
    /\ ev' = [kind |-> "attack", f |-> f]
    /\ UNCHANGED <<grids, sudoku, trial, catalog, options, plans, tr, nsingle, before, tally>>

\* Plan.iterate leaving a level at the first strategy that reports progress.
AfterExecute_eager(f, g, status) ==
    LET s == sch[f]
        d == IF status THEN done(g) ELSE [st |-> "ok", ch |-> FALSE]
    IN  IF d.st = "raise" THEN Raised(f)
        ELSE IF status THEN [s EXCEPT !.at = "attack"]
        ELSE IF s.idx < Len(plans[f][s.level].strategies)
             THEN [s EXCEPT !.at = "iterate", !.idx = @ + 1]
        ELSE IF s.status THEN [s EXCEPT !.at = "attack"]
        ELSE IF s.level < Len(plans[f])
             THEN [at |-> "iterate", level |-> s.level + 1, idx |-> 1, status |-> FALSE]
        ELSE [s EXCEPT !.at = "impasse"]

\* Plan.iterate after strategy.execute returned status on the grid g: the
\* rest of the loop body, the end of the level and the end of the pass.
AfterExecute(f, g, status) ==
    LET s == sch[f]
        st == s.status \/ status
        d == IF status THEN done(g) ELSE [st |-> "ok", ch |-> FALSE]
        endLevel == (status /\ d.ch) \/ s.idx = Len(plans[f][s.level].strategies)
    IN  IF d.st = "raise" THEN Raised(f)
        ELSE IF ~endLevel THEN [s EXCEPT !.at = "iterate", !.idx = @ + 1, !.status = st]
        ELSE IF st THEN [s EXCEPT !.at = "attack"]
        ELSE IF s.level < Len(plans[f])
             THEN [at |-> "iterate", level |-> s.level + 1, idx |-> 1, status |-> FALSE]
        ELSE [s EXCEPT !.at = "impasse"]

LogEntry(f, outcome) == [name |-> Current(f), level |-> CurrentLevel(f), outcome |-> outcome]
Outcome(status) == IF status THEN "progress" ELSE "none"

\* Strategy.execute of a deductive technique in plan f, r the result of its
\* run() on the plan's grid, followed by the rest of the Plan.iterate step.
Execute(f, name, r) ==
    /\ sch[f].at = "iterate"
    /\ Current(f) = name
    /\ grids' = [grids EXCEPT ![GridOf(f)] = r.g]
    /\ sch' = [sch EXCEPT ![f] = IF r.st = "raise" THEN Raised(f)
                                 ELSE AfterExecute(f, r.g, r.ch)]
    /\ passlog' = [passlog EXCEPT ![f] =
                     Append(@, LogEntry(f, IF r.st = "raise" THEN "raise" ELSE Outcome(r.ch)))]
    /\ nsingle' = [nsingle EXCEPT ![f] = IF name = "SINGLETON" THEN @ + 1 ELSE @]
    /\ ev' = [kind |-> "execute", f |-> f, name |-> name]
    /\ UNCHANGED <<sudoku, trial, catalog, options, plans, tr, before, tally>>

ExecSingleton(f) == Execute(f, "SINGLETON", Singleton_run(Board(f)))
ExecNakedGroup(f) == Execute(f, "NAKED-GROUP", NakedGroup_run(Board(f)))
ExecIntersection(f) == Execute(f, "INTERSECTION", Intersection_run(Board(f)))
ExecHiddenGroup(f) == Execute(f, "HIDDEN-GROUP", HiddenGroup_run(Board(f)))

\* ------------------------------------------------------------------------
\* strategy/trial.py
\* ------------------------------------------------------------------------

Arity(name) == IF name = "TRIAL-1" THEN 1 ELSE IF name = "TRIAL-2" THEN 2 ELSE 3

\* A hypothesis is a pair <<node, hint>>.  The loops of the run() methods
\* visit the incomplete nodes in row-major order and the hints of a node in
\* ascending order: the order of Key.
Key(p) == p[1] * 10 + p[2]
Pairs(g, excl) == {<<c, h>> : c \in get_incomplete(g) \ excl, h \in Values} 
NodesOf(prefix) == {prefix[k][1] : k \in 1..Len(prefix)}

\* The next <<node, hint>> of a loop pair `for node in get_incomplete(): for
\* hint in node.get_hints()` after the one with key `after`, skipping the
\* nodes of excl; <<>> when the loops are exhausted.
NextPair(g, excl, after) ==
    LET later == {p \in Pairs(g, excl) : p[2] \in g[p[1]].hints /\ Key(p) > after}
    IN  IF later = {} THEN <<>>
        ELSE CHOOSE p \in later : \A q \in later : Key(p) <= Key(q)

RECURSIVE Fill(_, _, _)
RECURSIVE Extend(_, _, _, _)
\* The first full tuple of hypotheses the inner loops reach below the given
\* prefix; <<>> when they reach none.
Fill(g, prefix, k) == IF Len(prefix) = k THEN prefix ELSE Extend(g, prefix, 0, k)
Extend(g, prefix, after, k) ==
    LET p == NextPair(g, NodesOf(prefix), after)
    IN  IF p = <<>> THEN <<>>
        ELSE LET r == Fill(g, Append(prefix, p), k)
             IN  IF r # <<>> THEN r ELSE Extend(g, prefix, Key(p), k)

RECURSIVE NextInner(_, _, _, _)
\* The tuple the inner loops reach after `cursor`, the first hypothesis
\* kept; j is the loop level being advanced.  <<>> when the inner loops of
\* the first hypothesis are exhausted.
NextInner(g, cursor, j, k) ==
    IF j < 2 THEN <<>>
    ELSE LET r == Extend(g, SubSeq(cursor, 1, j - 1), Key(cursor[j]), k)
         IN  IF r # <<>> THEN r ELSE NextInner(g, cursor, j - 1, k)

\* The outer loops beginning again after every attempt.
NextFirst_again(g) == NextPair(g, {}, 0)

\* The first hypothesis the outer loops reach next.
NextFirst(g) ==
    NextPair(g, {}, IF tr.stage = "start" THEN 0 ELSE Key(tr.cursor[1]))

\* What the run() in progress does next: "try" the tuple `hints`, pass its
\* "verdict" on the first hypothesis `first`, or "end" (return False).
NextAttempt(g) ==
    IF tr.stage = "tried" /\ tr.arity > 1
    THEN LET r == NextInner(g, tr.cursor, Len(tr.cursor), tr.arity)
         IN  IF r # <<>> THEN [kind |-> "try", hints |-> r, fresh |-> FALSE]
             ELSE [kind |-> "verdict", first |-> tr.cursor[1], fresh |-> FALSE]
    ELSE LET p == NextFirst(g)
         IN  IF p = <<>> THEN [kind |-> "end"]
             ELSE LET r == Fill(g, <<p>>, tr.arity)
                  IN  IF r # <<>> THEN [kind |-> "try", hints |-> r, fresh |-> TRUE]
                      ELSE [kind |-> "verdict", first |-> p, fresh |-> TRUE]

\* Strategy.execute of a trial technique: the entry of its run().
TrialRun ==
    /\ sch[1].at = "iterate"
    /\ Current(1) \in TrialNames
    /\ sch' = [sch EXCEPT ![1].at = "trial"]
    /\ tr' = [name |-> Current(1), arity |-> Arity(Current(1)), stage |-> "start",
              start |-> Board(1), cursor |-> <<>>, invalid |-> TRUE]
    /\ tally' = NoTally
    /\ ev' = [kind |-> "run", name |-> Current(1)]
    /\ UNCHANGED <<grids, sudoku, trial, catalog, options, plans, passlog, nsingle, before>>

\* The run() in progress is between two attempts.
Between == sch[1].at = "trial" /\ sch[2].at = "idle"

\* A snap that hands out the grid of the master board itself.
NewGrid_shared == sudoku

\* Sudoku.snap builds its grid of new nodes: the grid of the heap that the
\* master board does not refer to.
NewGrid == 3 - sudoku

\* Options.copy builds a new Options object: the second one of `options`.
NestedOptions == 2

\* Trial.try_hints up to the call of Plan.attack on the trial board: snap
\* the board into a new grid, set the hypotheses on it, copy the options,
\* disable the strategies above level 1 and build the plan.
TryHints ==
    /\ Between
    /\ LET a == NextAttempt(Board(1))
       IN  /\ a.kind = "try"
           /\ grids' = [grids EXCEPT ![NewGrid] = set_hypotheses(snap(Board(1)), a.hints, 1)]
           /\ tr' = [tr EXCEPT !.stage = "trying", !.cursor = a.hints,
                               !.invalid = IF a.fresh THEN TRUE ELSE @]
           /\ tally' = IF a.fresh THEN NoTally ELSE tally
           /\ ev' = [kind |-> "try", hints |-> a.hints]
    /\ trial' = NewGrid
    /\ options' = [options EXCEPT ![NestedOptions] = trial_options(options[1], catalog)]
    /\ plans' = [plans EXCEPT ![2] = get_plan(trial_options(options[1], catalog), catalog)]
    /\ sch' = [sch EXCEPT ![2] = [at |-> "attack", level |-> 0, idx |-> 0, status |-> FALSE]]
    /\ passlog' = [passlog EXCEPT ![2] = <<>>]
    /\ nsingle' = [nsingle EXCEPT ![2] = 0]
    /\ before' = Board(1)
    /\ UNCHANGED <<sudoku, catalog>>

\* The run() of the trial technique returns status on the master grid g:
\* the rest of Strategy.execute and of the Plan.iterate step.
TrialReturn(g, status) ==
    /\ sch' = [sch EXCEPT ![1] = AfterExecute(1, g, status), ![2] = Idle]
    /\ passlog' = [passlog EXCEPT ![1] = Append(@, LogEntry(1, Outcome(status)))]
    /\ tr' = NoTrial

\* The run() of the trial technique goes on to its next attempt.
TrialContinue(invalid) ==
    /\ sch' = [sch EXCEPT ![2] = Idle]
    /\ tr' = [tr EXCEPT !.stage = "tried", !.invalid = invalid]
    /\ UNCHANGED passlog

\* A LogicException leaves the run() of the trial technique, Plan.iterate
\* and Plan.attack of the master plan.
TrialRaise ==
    /\ sch' = [sch EXCEPT ![1] = Raised(1), ![2] = Idle]
    /\ passlog' = [passlog EXCEPT ![1] = Append(@, LogEntry(1, "raise"))]
    /\ tr' = NoTrial

\* Playbook.solve on the trial board returned True: Sudoku.copy makes the
\* master board refer to the grid of the trial, and run() returns True.
TrialSuccess ==
    /\ sch[1].at = "trial"
    /\ sch[2].at = "success"
    /\ sudoku' = trial
    /\ trial' = 0
    /\ TrialReturn(grids[trial], TRUE)
    /\ ev' = [kind |-> "commit", hints |-> tr.cursor]
    /\ UNCHANGED <<grids, catalog, options, plans, nsingle, before, tally>>

\* Playbook.solve on the trial board returned False: try_hints returns
\* False; TrialTwo and TrialThree clear `invalid`.
TrialImpasse ==
    /\ sch[1].at = "trial"
    /\ sch[2].at = "impasse"
    /\ trial' = 0
    /\ TrialContinue(IF tr.arity = 1 THEN tr.invalid ELSE FALSE)
    /\ ev' = [kind |-> "impasse", hints |-> tr.cursor]
    /\ tally' = [tally EXCEPT !.impasse = @ + 1]
    /\ UNCHANGED <<grids, sudoku, catalog, options, plans, nsingle, before>>

\* purge_hints(plan, [node], set([hint])) on the master board followed by
\* `if node.is_complete(): return True`, for the first hypothesis p.
PurgeFirst(p, kind) ==
    LET r == purge_hints(Board(1), {p[1]}, {p[2]})
    IN  /\ grids' = [grids EXCEPT ![sudoku] = r.g]
        /\ ev' = [kind |-> kind, hints |-> tr.cursor, first |-> p, purged |-> TRUE,
                  outcome |-> r.st, was |-> Board(1)]
        /\ IF r.st = "raise" THEN TrialRaise
           ELSE IF is_complete(r.g[p[1]]) THEN TrialReturn(r.g, TRUE)
           ELSE /\ sch' = [sch EXCEPT ![2] = Idle]
                /\ tr' = [tr EXCEPT !.stage = IF kind = "verdict" THEN "judged" ELSE "tried",
                                    !.cursor = IF kind = "verdict" THEN <<p>> ELSE @]
                /\ UNCHANGED passlog

\* TrialTwo and TrialThree purging, as TrialOne does, at each LogicException.
TrialContradiction_purging ==
    /\ sch[1].at = "trial"
    /\ sch[2].at = "raised"
    /\ trial' = 0
    /\ PurgeFirst(tr.cursor[1], "contradiction")
    /\ tally' = [tally EXCEPT !.raised = @ + 1]
    /\ UNCHANGED <<sudoku, catalog, options, plans, nsingle, before>>

\* Playbook.solve on the trial board raised LogicException.  TrialOne
\* purges the hint from the node; TrialTwo and TrialThree go on.
TrialContradiction ==
    /\ sch[1].at = "trial"
    /\ sch[2].at = "raised"
    /\ trial' = 0
    /\ IF tr.arity = 1
       THEN PurgeFirst(tr.cursor[1], "contradiction")
       ELSE /\ TrialContinue(tr.invalid)
            /\ ev' = [kind |-> "contradiction", hints |-> tr.cursor, first |-> tr.cursor[1],
                      purged |-> FALSE, outcome |-> "ok", was |-> Board(1)]
            /\ UNCHANGED grids
    /\ tally' = [tally EXCEPT !.raised = @ + 1]
    /\ UNCHANGED <<sudoku, catalog, options, plans, nsingle, before>>

\* TrialTwo and TrialThree, after the inner loops of a first hypothesis:
\* `if invalid:` purge it.
TrialVerdict ==
    /\ Between
    /\ LET a == NextAttempt(Board(1))
       IN  /\ a.kind = "verdict"
           /\ IF a.fresh \/ tr.invalid
              THEN PurgeFirst(a.first, "verdict")
              ELSE /\ tr' = [tr EXCEPT !.stage = "judged", !.cursor = <<a.first>>]
                   /\ ev' = [kind |-> "verdict", hints |-> tr.cursor, first |-> a.first,
                             purged |-> FALSE, outcome |-> "ok", was |-> Board(1)]
                   /\ UNCHANGED <<grids, sch, passlog>>
           /\ tally' = IF a.fresh THEN NoTally ELSE tally
    /\ UNCHANGED <<sudoku, trial, catalog, options, plans, nsingle, before>>

\* The loops of run() are exhausted: it returns False.
TrialExhausted ==
    /\ Between
    /\ NextAttempt(Board(1)).kind = "end"
    /\ TrialReturn(Board(1), FALSE)
    /\ ev' = [kind |-> "exhausted", name |-> tr.name, was |-> tr.start]
    /\ UNCHANGED <<grids, sudoku, trial, catalog, options, plans, nsingle, before, tally>>

\* Game.solve after Playbook.solve: "Answer:" is printed when it returned
\* True, "Sorry. It's too hard!" when it returned False.  There is no
\* handler: a LogicException leaves Game.solve and Game.run, nothing is
\* printed but the traceback of the interpreter.
GameSolve ==
    /\ sch[1].at \in {"success", "impasse", "raised"}
    /\ sch' = [sch EXCEPT ![1].at = IF @ = "raised" THEN "traceback" ELSE "printed"]
    /\ ev' = [kind |-> "game", outcome |-> sch[1].at,
              printed |-> IF sch[1].at = "success" THEN "Answer:"
                          ELSE IF sch[1].at = "impasse" THEN "Sorry. It's too hard!"
                          ELSE "",
              raised |-> sch[1].at = "raised"]
    /\ UNCHANGED <<grids, sudoku, trial, catalog, options, plans, tr, passlog, nsingle,
                   before, tally>>

Next ==
    \/ \E f \in 1..2 : Attack(f)
    \/ \E f \in 1..2 : ExecSingleton(f)
    \/ \E f \in 1..2 : ExecNakedGroup(f)
    \/ \E f \in 1..2 : ExecIntersection(f)
    \/ \E f \in 1..2 : ExecHiddenGroup(f)
    \/ TrialRun
    \/ TryHints
    \/ TrialSuccess
    \/ TrialImpasse
    \/ TrialContradiction
    \/ TrialVerdict
    \/ TrialExhausted
    \/ GameSolve

Spec == Init /\ [][Next]_vars

\* The program is one thread that takes its next step whenever it has one.
FairSpec == Init /\ [][Next]_vars /\ WF_vars(Next)

\* ------------------------------------------------------------------------
\* The elimination contract, call by call
\* ------------------------------------------------------------------------

\* A second specification follows one board through the calls of the
\* contract: the board is loaded from a puzzle text, which may give
\* candidate lists; Singleton.run refreshes its nodes, one refresh_node
\* call a step; then purge_hints and update_hints are called on nodes of
\* the board, as the run() of a technique calls them with what it deduced.
\* Here sch[1] tells the node Singleton.run stands at and the number of
\* calls made after it, and ev tells the last call: its kind, node and
\* hints, whether it raised (outcome), what it returned (ch) and the board
\* it was made on (was).

\* At most this many purge_hints and update_hints calls follow Singleton.run.
MaxCalls == 1

ContractInit ==
    /\ \E holes \in HoleSets, co \in 0..Len(Corruptions), li \in 0..Len(Lists) :
          /\ Sudoku_load(Items(holes, co, li)).st = "ok"
          /\ grids = <<Sudoku_load(Items(holes, co, li)).g, BlankGrid>>
    /\ catalog = Catalog
    /\ options = <<Options_init, Options_init>>
    /\ plans = << <<>>, <<>> >>
    /\ sudoku = 1
    /\ trial = 0
    /\ sch = <<[at |-> "refresh", node |-> 0, calls |-> 0], Idle>>
    /\ tr = NoTrial
    /\ passlog = << <<>>, <<>> >>
    /\ nsingle = <<0, 0>>
    /\ before = BlankGrid
    /\ tally = NoTally
    /\ ev = NoEvent

\* The board after a call with result r, the record of the call, and where
\* the calls stand after it: at `next`, unless it raised.
Called(kind, c, hints, r, next) ==
    /\ grids' = [grids EXCEPT ![1] = r.g]
    /\ sch' = [sch EXCEPT ![1] = IF r.st = "raise" THEN [@ EXCEPT !.at = "raised"] ELSE next]
    /\ ev' = [kind |-> kind, node |-> c, hints |-> hints, outcome |-> r.st, ch |-> r.ch,
              was |-> grids[1]]
    /\ UNCHANGED <<sudoku, trial, catalog, options, plans, tr, passlog, nsingle, before, tally>>

\* Singleton.run: the refresh_node call on its next node.
RefreshNode ==
    /\ sch[1].at = "refresh"
    /\ Called("refresh", sch[1].node, {}, refresh_node(grids[1], sch[1].node),
              IF sch[1].node = 80 THEN [sch[1] EXCEPT !.at = "deduce"]
              ELSE [sch[1] EXCEPT !.node = @ + 1])

\* A technique purges hints from a node: one of its hints, or all of them.
PurgeHints ==
    /\ sch[1].at = "deduce"
    /\ sch[1].calls < MaxCalls
    /\ \E c \in get_incomplete(grids[1]) :
         \E hints \in {{h} : h \in grids[1][c].hints} \cup {grids[1][c].hints} :
            Called("purge", c, hints, purge_hints(grids[1], {c}, hints),
                   [sch[1] EXCEPT !.calls = @ + 1])

\* A technique keeps two of the hints of a node that holds more.
UpdateHints ==
    /\ sch[1].at = "deduce"
    /\ sch[1].calls < MaxCalls
    /\ \E c \in get_incomplete(grids[1]) :
         \E hints \in {T \in SUBSET grids[1][c].hints : Cardinality(T) = 2} :
            /\ hints # grids[1][c].hints
            /\ Called("update", c, hints, update_hints(grids[1], {c}, hints),
                      [sch[1] EXCEPT !.calls = @ + 1])

\* NAKED-GROUP executes with the STEP hook enabled; the user gives the same
\* answer to every prompt of the execution.
StepNakedGroup ==
    /\ sch[1].at = "deduce"
    /\ sch[1].calls < MaxCalls
    /\ \E answer \in Answers :
          LET r == NakedGroup_stepped(grids[1], answer)
          IN  /\ grids' = [grids EXCEPT ![1] = r.g]
              /\ sch' = [sch EXCEPT ![1] = IF r.st = "raise" THEN [@ EXCEPT !.at = "raised"]
                                           ELSE [@ EXCEPT !.calls = @ + 1]]
              /\ ev' = [kind |-> "step", answer |-> answer, outcome |-> r.st, ch |-> r.ch,
                        was |-> grids[1]]
    /\ UNCHANGED <<sudoku, trial, catalog, options, plans, tr, passlog, nsingle, before, tally>>

ContractNext == RefreshNode \/ PurgeHints \/ UpdateHints \/ StepNakedGroup

ContractSpec == ContractInit /\ [][ContractNext]_vars

\* ------------------------------------------------------------------------
\* strategy/chain.py, strategy/aic.py: chains and Nice Loops
\* ------------------------------------------------------------------------

\* A chain is a sequence of <<link, color>>; a link is <<group, hint>>, the
\* group a tuple of nodes.  The default None of the parameters hint and
\* color is given as the set of all hints, of both colors.

\* The positions chain[first::step] of a chain.
Slice(chain, first, step) ==
    {k \in 1..Len(chain) : k - 1 >= first /\ (k - 1 - first) % step = 0}

chain_all_links(chain, hints, colors, first, step) ==
    {chain[k][1] : k \in {j \in Slice(chain, first, step) :
                              chain[j][1][2] \in hints /\ chain[j][2] \in colors}}

chain_flip_link(loc) == <<loc[1], ~loc[2]>>

chain_flip(chain) == [k \in 1..Len(chain) |-> chain_flip_link(chain[k])]

chain_reverse_flip(chain) ==
    [k \in 1..Len(chain) |-> chain_flip_link(chain[Len(chain) + 1 - k])]

\* cycle[1:-1]
Middle(cycle) == SubSeq(cycle, 2, Len(cycle) - 1)

loop_contig(cycle) ==
    LET links == chain_all_links(cycle, Values, BOOLEAN, 0, 1)
        on == chain_all_links(cycle, Values, {TRUE}, 1, 2)
        off == chain_all_links(cycle, Values, {FALSE}, 0, 2)
    IN  /\ Cardinality(links) = Len(cycle)
        /\ Cardinality(on) = Cardinality(off)
        /\ Cardinality(off) + Cardinality(on) = Cardinality(links)

loop_strong(cycle) ==
    /\ Cardinality(chain_all_links(cycle, Values, BOOLEAN, 0, 1)) + 1 = Len(cycle)
    /\ loop_contig(chain_flip(Middle(cycle)))
    /\ cycle[1][1] = cycle[Len(cycle)][1]
    /\ ~cycle[1][2]
    /\ cycle[Len(cycle)][2]

loop_weak(cycle) ==
    /\ Cardinality(chain_all_links(cycle, Values, BOOLEAN, 0, 1)) + 1 = Len(cycle)
    /\ loop_contig(Middle(cycle))
    /\ cycle[1][1] = cycle[Len(cycle)][1]
    /\ cycle[1][2]
    /\ ~cycle[Len(cycle)][2]

\* other[index:] + other[0:index], index counted from 1.
Shifted(other, index) == SubSeq(other, index, Len(other)) \o SubSeq(other, 1, index - 1)

loop_duplicate_oneway(cycle, other) ==
    /\ \E k \in 1..Len(other) : other[k] = cycle[1]
    /\ cycle = Shifted(other, Min({k \in 1..Len(other) : other[k] = cycle[1]}))

loop_duplicate_contig(cycle, other) ==
    \/ loop_duplicate_oneway(cycle, other)
    \/ loop_duplicate_oneway(chain_reverse_flip(cycle), other)

loop_duplicate_strong(cycle, other) ==
    cycle[1] = other[1] /\ chain_reverse_flip(Middle(cycle)) = Middle(other)

loop_duplicate_weak(cycle, other) ==
    cycle[1] = other[1] /\ chain_reverse_flip(Middle(cycle)) = Middle(other)

\* Loop.loop_duplicate; its first test looks at `cycle` twice.
loop_duplicate(cycle, other) ==
    IF Len(cycle) # Len(other) THEN FALSE
    ELSE IF loop_contig(cycle) /\ loop_contig(cycle) THEN loop_duplicate_contig(cycle, other)
    ELSE IF loop_strong(cycle) /\ loop_strong(other) THEN loop_duplicate_strong(cycle, other)
    ELSE IF loop_weak(cycle) /\ loop_weak(other) THEN loop_duplicate_weak(cycle, other)
    ELSE FALSE

\* ------------------------------------------------------------------------
\* strategy/medusa.py: SIMPLE-COLORING and 3D-MEDUSA
\* ------------------------------------------------------------------------

\* A location is <<link, color>>, a link <<node, hint>>.  A graph is given
\* by the set of its locations, the keys of the dict (the lists of connected
\* locations the dict holds are used for printing only).  Sets of nodes and
\* hints are gone through in ascending order.

\* Lot.value_links, Lot.exclusive_link (the set is empty for None).
value_links(g, lot, node, i) == {x \in other_nodes(g, lot, {node}) : i \in g[x].hints}

exclusive_link(g, lot, node, i) ==
    IF Cardinality(value_links(g, lot, node, i)) = 1 THEN value_links(g, lot, node, i)
    ELSE {}

\* Strategy.find_related: what the nodes see, themselves excluded.
Strategy_find_related(nodes) == UNION {find_related(c) : c \in nodes} \ nodes

medusa_all_links(graph, hints, colors) ==
    {loc[1] : loc \in {l \in graph : l[1][2] \in hints /\ l[2] \in colors}}

medusa_has_link(graph, link) == \E color \in BOOLEAN : <<link, color>> \in graph

medusa_all_nodes(graph, hints, colors) ==
    {l[1] : l \in medusa_all_links(graph, hints, colors)}

medusa_all_hints(graph, colors) == {l[2] : l \in medusa_all_links(graph, Values, colors)}

medusa_node_hints(graph, node, colors) ==
    {l[2] : l \in {x \in medusa_all_links(graph, Values, colors) : x[1] = node}}

RECURSIVE medusa_purge_loop(_, _, _, _, _, _)
medusa_purge_loop(g, graph, color, nodes, k, status) ==
    IF k > Len(nodes) THEN Ok(g, status)
    ELSE Then(purge_hints(g, {nodes[k]}, medusa_node_hints(graph, nodes[k], {color})),
              LAMBDA r : medusa_purge_loop(r.g, graph, color, nodes, k + 1, status \/ r.ch))

medusa_purge_color(g, graph, color) ==
    medusa_purge_loop(g, graph, color, Sorted(medusa_all_nodes(graph, Values, BOOLEAN)),
                      1, FALSE)

\* Two hints of one color in a node.
NodeConflict(g, graph, n, color) ==
    ~is_complete(g[n]) /\ Cardinality(medusa_node_hints(graph, n, {color})) > 1

medusa_conflict_node(g, graph) ==
    LET hits == {n \in medusa_all_nodes(graph, Values, BOOLEAN) :
                    \E color \in BOOLEAN : NodeConflict(g, graph, n, color)}
    IN  IF hits = {} THEN Ok(g, FALSE)
        ELSE medusa_purge_color(g, graph, NodeConflict(g, graph, Min(hits), TRUE))

\* The hints that two nodes of the lot Lots[k] hold in the same color.
LotConflicts(g, graph, k, color) ==
    LET lnodes == {c \in medusa_all_nodes(graph, Values, BOOLEAN) \cap LotCells(Lots[k]) :
                      ~is_complete(g[c])}
    IN  UNION {medusa_node_hints(graph, p[1], {color})
                  \cap medusa_node_hints(graph, p[2], {color}) :
               p \in {q \in lnodes \X lnodes : q[1] < q[2]}}

medusa_conflict_lot(g, graph) ==
    LET hits == {k \in 1..27 : \E color \in BOOLEAN : LotConflicts(g, graph, k, color) # {}}
    IN  IF hits = {} THEN Ok(g, FALSE)
        ELSE medusa_purge_color(g, graph, LotConflicts(g, graph, Min(hits), TRUE) # {})

RECURSIVE medusa_bicolor_loop(_, _, _, _, _)
medusa_bicolor_loop(g, graph, nodes, k, status) ==
    IF k > Len(nodes) THEN Ok(g, status)
    ELSE LET on == medusa_node_hints(graph, nodes[k], {TRUE})
             off == medusa_node_hints(graph, nodes[k], {FALSE})
         IN  IF \/ is_complete(g[nodes[k]])
                \/ on = {}
                \/ off = {}
                \/ ~test_update(g, {nodes[k]}, on \cup off)
             THEN medusa_bicolor_loop(g, graph, nodes, k + 1, status)
             ELSE Then(update_hints(g, {nodes[k]}, on \cup off),
                       LAMBDA r : medusa_bicolor_loop(r.g, graph, nodes, k + 1, TRUE))

medusa_bicolor_node(g, graph) ==
    medusa_bicolor_loop(g, graph, Sorted(medusa_all_nodes(graph, Values, BOOLEAN)), 1, FALSE)

\* The nodes off the graph that see the hint in both colors.
OffChain(graph, hint) ==
    Strategy_find_related(medusa_all_nodes(graph, {hint}, {TRUE}))
        \cap Strategy_find_related(medusa_all_nodes(graph, {hint}, {FALSE}))

RECURSIVE medusa_offchain_loop(_, _, _, _, _)
medusa_offchain_loop(g, graph, hints, k, status) ==
    IF k > Len(hints) THEN Ok(g, status)
    ELSE IF test_purge(g, OffChain(graph, hints[k]), {hints[k]})
         THEN Then(purge_hints(g, OffChain(graph, hints[k]), {hints[k]}),
                   LAMBDA r : medusa_offchain_loop(r.g, graph, hints, k + 1, TRUE))
         ELSE medusa_offchain_loop(g, graph, hints, k + 1, status)

medusa_conflict_offchain(g, graph) ==
    medusa_offchain_loop(g, graph, Sorted(medusa_all_hints(graph, BOOLEAN)), 1, FALSE)

\* The uncolored hints of a node of the graph that see themselves, in its
\* lots, in the color opposite to one the node holds.
NodeLotConflicts(g, graph, n) ==
    {hint \in g[n].hints \ medusa_node_hints(graph, n, BOOLEAN) :
        \E color \in BOOLEAN :
            /\ medusa_node_hints(graph, n, {color}) # {}
            /\ find_related(n) \cap medusa_all_nodes(graph, {hint}, {~color}) # {}}

RECURSIVE medusa_node_lot_loop(_, _, _, _, _)
medusa_node_lot_loop(g, graph, nodes, k, status) ==
    IF k > Len(nodes) THEN Ok(g, status)
    ELSE IF /\ ~is_complete(g[nodes[k]])
            /\ test_purge(g, {nodes[k]}, NodeLotConflicts(g, graph, nodes[k]))
         THEN Then(purge_hints(g, {nodes[k]}, NodeLotConflicts(g, graph, nodes[k])),
                   LAMBDA r : medusa_node_lot_loop(r.g, graph, nodes, k + 1, TRUE))
         ELSE medusa_node_lot_loop(g, graph, nodes, k + 1, status)

medusa_node_lot(g, graph) ==
    medusa_node_lot_loop(g, graph, Sorted(medusa_all_nodes(graph, Values, BOOLEAN)), 1, FALSE)

\* Every hint of the node sees itself in the color.
Emptied(g, graph, n, color) ==
    \A hint \in g[n].hints :
        medusa_all_nodes(graph, {hint}, {color}) \cap find_related(n) # {}

medusa_empty_color(g, graph) ==
    LET hits == {n \in get_incomplete(g) \ medusa_all_nodes(graph, Values, BOOLEAN) :
                    \E color \in BOOLEAN : Emptied(g, graph, n, color)}
    IN  IF hits = {} THEN Ok(g, FALSE)
        ELSE medusa_purge_color(g, graph, Emptied(g, graph, Min(hits), TRUE))

\* `status = True` when the step that returned r reported progress.
Noted(r, status) == [r EXCEPT !.ch = @ \/ status]

medusa_process(g, graph, simple) ==
    Then(IF simple THEN Ok(g, FALSE) ELSE medusa_conflict_node(g, graph),
    LAMBDA a : Then(Noted(medusa_conflict_lot(a.g, graph), a.ch),
    LAMBDA b : Then(Noted(IF simple THEN Ok(b.g, FALSE)
                          ELSE medusa_bicolor_node(b.g, graph), b.ch),
    LAMBDA c : Then(Noted(medusa_conflict_offchain(c.g, graph), c.ch),
    LAMBDA d : Then(Noted(medusa_node_lot(d.g, graph), d.ch),
    LAMBDA e : Noted(IF simple THEN Ok(e.g, FALSE)
                     ELSE medusa_empty_color(e.g, graph), e.ch))))))

medusa_find_links(g, link, simple) ==
    LET node == link[1]
        hint == link[2]
        nodes == UNION {exclusive_link(g, Lots[get_lots(node)[k]], node, hint) : k \in 1..3}
        diff == g[node].hints \ {hint}
    IN  {<<n, hint>> : n \in nodes}
            \cup (IF ~simple /\ Cardinality(diff) = 1 THEN {<<node, s>> : s \in diff} ELSE {})

RECURSIVE medusa_walk(_, _, _, _)
RECURSIVE medusa_walk_each(_, _, _, _)
\* The second loop of medusa_walk: the walk from each new location.
medusa_walk_each(g, simple, locs, graph) ==
    IF locs = {} THEN graph
    ELSE LET next == CHOOSE x \in locs : TRUE
         IN  medusa_walk_each(g, simple, locs \ {next}, medusa_walk(g, simple, next, graph))

\* MedusaBase.medusa_walk with medusa_add: the graph after the walk from loc.
medusa_walk(g, simple, loc, graph) ==
    LET origin == IF graph = {} THEN {loc} ELSE graph
        locs == {<<l, ~loc[2]>> : l \in medusa_find_links(g, loc[1], simple)} \ origin
    IN  medusa_walk_each(g, simple, locs, origin \cup locs)

\* Only a graph of more than one location is kept.
medusa_keep_all(graph) == Cardinality(graph) > 0

\* `if len(graph) > 1: graphs.append(graph)`
medusa_keep(graph) == Cardinality(graph) > 1

\* After the walk from the seed: the graph is recorded, and kept or not.
medusa_collect(acc, seed, graph) ==
    [graphs |-> IF medusa_keep(graph) THEN Append(acc.graphs, graph) ELSE acc.graphs,
     walked |-> Append(acc.walked, [seed |-> seed, graph |-> graph])]

RECURSIVE medusa_graphs(_, _, _, _, _, _)
\* The first loop of MedusaBase.medusa.
medusa_graphs(g, i, simple, nodes, k, acc) ==
    IF k > Len(nodes) THEN acc
    ELSE IF \E j \in 1..Len(acc.graphs) : medusa_has_link(acc.graphs[j], <<nodes[k], i>>)
         THEN medusa_graphs(g, i, simple, nodes, k + 1, acc)
         ELSE medusa_graphs(g, i, simple, nodes, k + 1,
                            medusa_collect(acc, <<nodes[k], i>>,
                                           medusa_walk(g, simple, << <<nodes[k], i>>, TRUE >>, {})))

RECURSIVE medusa_process_loop(_, _, _, _, _)
\* The second loop of MedusaBase.medusa.
medusa_process_loop(g, simple, graphs, k, status) ==
    IF k > Len(graphs) THEN Ok(g, status)
    ELSE Then(medusa_process(g, graphs[k], simple),
              LAMBDA r : medusa_process_loop(r.g, simple, graphs, k + 1, status \/ r.ch))

\* The result of the second loop, with the graphs the first loop built.
medusa_result(r, acc) ==
    [g |-> r.g, st |-> r.st, ch |-> r.ch, graphs |-> acc.graphs, walked |-> acc.walked]

medusa_processed(g, simple, acc) ==
    medusa_result(medusa_process_loop(g, simple, acc.graphs, 1, FALSE), acc)

\* MedusaBase.medusa for the hint i.
medusa(g, i, simple) ==
    medusa_processed(g, simple,
                     medusa_graphs(g, i, simple,
                                   Sorted({c \in get_incomplete(g) : i \in g[c].hints}), 1,
                                   [graphs |-> <<>>, walked |-> <<>>]))

\* ------------------------------------------------------------------------
\* strategy/chain.py: the links that leave a link
\* ------------------------------------------------------------------------

\* The nodes of the group of a link.
GroupOf(link) == {link[1][k] : k \in 1..Len(link[1])}

chain_is_group_link(link) == Len(link[1]) > 1

\* The lots all the nodes of the group belong to.
shared_lots(link) ==
    {k \in 1..27 : \A x \in GroupOf(link) : k \in {get_lots(x)[j] : j \in 1..3}}

\* nsets of chain_find_links: per shared lot, the nodes linked by the hint.
chain_nsets(g, link) ==
    {value_links(g, Lots[k], link[1][1], link[2]) \ GroupOf(link) : k \in shared_lots(link)}

\* Chain.chain_find_group_links with no test of the box, row and column.
chain_find_group_links_unaligned(link, wsets) == {<<Sorted(w), link[2]>> : w \in wsets}

\* Chain.chain_find_group_links: the weak sets within one box and within
\* one row or one column, each as one link.
chain_find_group_links(link, wsets) ==
    {<<Sorted(w), link[2]>> :
        w \in {x \in wsets : /\ Cardinality({BoxOf(c) : c \in x}) = 1
                             /\ \/ Cardinality({RowOf(c) : c \in x}) = 1
                                \/ Cardinality({ColOf(c) : c \in x}) = 1}}

\* Chain.chain_find_links of a technique with the given biloc_only and
\* group_limit: the strong links (s), the weak links (w), the group links (gl).
chain_find_links(g, link, group_count, biloc_only, group_limit) ==
    LET i == link[2]
        node == link[1][1]
        nsets == chain_nsets(g, link)
        wsets == {x \in nsets : Cardinality(x) > 1}
        snodes == UNION {x \in nsets : Cardinality(x) = 1}
        wnodes == UNION wsets
        valued == ~biloc_only /\ ~chain_is_group_link(link)
        hints == g[node].hints \ {i}
        vlinks == {<< <<node>>, j >> : j \in hints}
    IN  [s |-> {<< <<x>>, i >> : x \in snodes}
                  \cup (IF valued /\ Cardinality(hints) <= 1 THEN vlinks ELSE {}),
         w |-> {<< <<x>>, i >> : x \in wnodes}
                  \cup (IF valued /\ Cardinality(hints) > 1 THEN vlinks ELSE {}),
         gl |-> IF group_count < group_limit /\ ~chain_is_group_link(link)
                THEN chain_find_group_links(link, wsets) ELSE {}]

\* ------------------------------------------------------------------------
\* strategy/aic.py: the walk that finds the Nice Loops
\* ------------------------------------------------------------------------

\* Loop.__init__: the default of length_limit, which no technique changes.
length_limit == 16

\* Chain.chain_link_conflict: the hint of the link with an overlapping group.
chain_link_conflict(link, chain) ==
    \E k \in 1..Len(chain) :
        GroupOf(link) \cap GroupOf(chain[k][1]) # {} /\ link[2] = chain[k][1][2]

\* Chain.chain_group_links.
chain_group_links(chain) ==
    {l \in chain_all_links(chain, Values, BOOLEAN, 0, 1) : chain_is_group_link(l)}

\* loop_walk returning a chain of any length that is back at its head.
loop_close_short(cycle, slinks, wlinks) ==
    LET head == cycle[1][1]
        next == cycle[Len(cycle)][1]
        color == cycle[Len(cycle)][2]
    IN  IF ~color /\ head \in slinks THEN <<Append(cycle, <<head, ~color>>)>>
        ELSE IF ~color /\ head \in wlinks THEN << << <<next, ~color>> >> \o cycle >>
        ELSE IF color /\ head \in wlinks THEN <<cycle>>
        ELSE <<>>

\* The three returns of loop_walk for a chain of more than two links that
\* is back at its head: the discontiguous strong loop, the discontiguous
\* weak loop, the contiguous loop; no loop otherwise.
loop_close(cycle, slinks, wlinks) ==
    LET head == cycle[1][1]
        next == cycle[Len(cycle)][1]
        color == cycle[Len(cycle)][2]
    IN  IF Len(cycle) <= 2 THEN <<>>
        ELSE IF ~color /\ head \in slinks THEN <<Append(cycle, <<head, ~color>>)>>
        ELSE IF ~color /\ head \in wlinks THEN << << <<next, ~color>> >> \o cycle >>
        ELSE IF color /\ head \in wlinks THEN <<cycle>>
        ELSE <<>>

\* The place of a link in the order the links of a set are gone through:
\* by the nodes of the group, then by the hint.
LinkKey(link) ==
    link[2] + 10 * (link[1][1]
                    + 100 * (IF Len(link[1]) > 1 THEN link[1][2] + 1 ELSE 0)
                    + 10000 * (IF Len(link[1]) > 2 THEN link[1][3] + 1 ELSE 0))

\* The links of a set in that order.
SortedLinks(S) ==
    [i \in 1..Cardinality(S) |->
        CHOOSE x \in S : Cardinality({y \in S : LinkKey(y) < LinkKey(x)}) = i - 1]

RECURSIVE loop_walk(_, _, _, _)
RECURSIVE loop_walk_each(_, _, _, _, _, _)
\* The last loop of loop_walk: the batches of the chains longer by a link.
loop_walk_each(g, cycle, biloc_only, group_limit, links, k) ==
    IF k > Len(links) THEN <<>>
    ELSE loop_walk(g, Append(cycle, <<links[k], ~cycle[Len(cycle)][2]>>),
                   biloc_only, group_limit)
            \o loop_walk_each(g, cycle, biloc_only, group_limit, links, k + 1)

\* loop_walk after chain_find_links, with `wlinks |= slinks` and
\* `slinks |= glinks` done: the loop found, or the loops of the longer chains.
loop_walk_on(g, cycle, biloc_only, group_limit, slinks, wlinks) ==
    IF loop_close(cycle, slinks, wlinks) # <<>> THEN loop_close(cycle, slinks, wlinks)
    ELSE IF Len(cycle) = length_limit THEN <<>>
    ELSE With(SortedLinks({x \in (IF cycle[Len(cycle)][2] THEN wlinks ELSE slinks) :
                              ~chain_link_conflict(x, cycle)}),
              LAMBDA links : loop_walk_each(g, cycle, biloc_only, group_limit, links, 1))

\* Loop.loop_walk: the list of the loops that begin with the chain.
loop_walk(g, cycle, biloc_only, group_limit) ==
    With(chain_find_links(g, cycle[Len(cycle)][1], Cardinality(chain_group_links(cycle)),
                          biloc_only, group_limit),
         LAMBDA f : loop_walk_on(g, cycle, biloc_only, group_limit,
                                 f.s \cup f.gl, f.w \cup f.s))

\* The loops of a list.
Loops(cycles) == {cycles[k] : k \in 1..Len(cycles)}

\* ------------------------------------------------------------------------
\* strategy/aic.py: the eliminations of a Nice Loop, Loop.loop, Loop.run
\* ------------------------------------------------------------------------

\* A call that ends in a TypeError or an AssertionError.
Fail(g) == [g |-> g, st |-> "error", ch |-> FALSE]

\* A call that passes more arguments than the method takes: a TypeError.
Misapplied(g) == [g |-> g, st |-> "arguments", ch |-> FALSE]

\* The nodes of a group.
GroupNodes(group) == {group[k] : k \in 1..Len(group)}

chain_all_groups(chain, hints, colors, first, step) ==
    {l[1] : l \in chain_all_links(chain, hints, colors, first, step)}

chain_all_hints(chain, colors, first, step) ==
    {l[2] : l \in chain_all_links(chain, Values, colors, first, step)}

chain_group_hints(chain, group, colors) ==
    {l[2] : l \in {x \in chain_all_links(chain, Values, colors, 0, 1) : x[1] = group}}

\* Strategy.join_related: what all the nodes see, themselves excluded.
join_related(nodes) ==
    IF nodes = {} THEN {}
    ELSE {d \in Cells : \A c \in nodes : d \in find_related(c)} \ nodes

chain_group_related(groups) == UNION {join_related(GroupNodes(x)) : x \in groups}

\* The groups of a loop in the order they are gone through.
SortedGroups(cycle) ==
    [k \in 1..Cardinality(chain_all_groups(cycle, Values, BOOLEAN, 0, 1)) |->
        SortedLinks({<<x, 0>> : x \in chain_all_groups(cycle, Values, BOOLEAN, 0, 1)})[k][1]]

\* The first loop of loop_process_contig finds a group with two hints of one
\* color.
same_color(cycle) ==
    \E group \in chain_all_groups(cycle, Values, BOOLEAN, 0, 1), color \in BOOLEAN :
        Cardinality(chain_group_hints(cycle, group, {color})) >= 2

RECURSIVE loop_dual_color(_, _, _, _, _)
\* The second loop of loop_process_contig: a group with both colors keeps
\* the hints of the loop only.
loop_dual_color(g, cycle, groups, k, status) ==
    IF k > Len(groups) THEN Ok(g, status)
    ELSE IF \/ Cardinality(chain_group_hints(cycle, groups[k], BOOLEAN)) = 1
            \/ ~test_update(g, GroupNodes(groups[k]),
                            chain_group_hints(cycle, groups[k], BOOLEAN))
         THEN loop_dual_color(g, cycle, groups, k + 1, status)
         ELSE Then(update_hints(g, GroupNodes(groups[k]),
                                chain_group_hints(cycle, groups[k], BOOLEAN)),
                   LAMBDA r : loop_dual_color(r.g, cycle, groups, k + 1, TRUE))

\* The nodes off the loop that see the hint in both colors.
OffLoop(cycle, hint) ==
    chain_group_related(chain_all_groups(cycle, {hint}, {TRUE}, 1, 2))
        \cap chain_group_related(chain_all_groups(cycle, {hint}, {FALSE}, 0, 2))

RECURSIVE loop_off_chain(_, _, _, _, _)
\* The third loop of loop_process_contig.
loop_off_chain(g, cycle, hints, k, status) ==
    IF k > Len(hints) THEN Ok(g, status)
    ELSE IF test_purge(g, OffLoop(cycle, hints[k]), {hints[k]})
         THEN Then(purge_hints(g, OffLoop(cycle, hints[k]), {hints[k]}),
                   LAMBDA r : loop_off_chain(r.g, cycle, hints, k + 1, TRUE))
         ELSE loop_off_chain(g, cycle, hints, k + 1, status)

\* A method that ends without a return statement returns None, which a
\* caller testing the result takes for False.
Unreturned(r) == IF r.st = "ok" THEN Ok(r.g, FALSE) ELSE r

\* Loop.loop_process_contig.  Its first loop returns the result of the call
\* loop_purge_color(plan, cycle, color, reason, note) of a method defined
\* as loop_purge_color(self, plan, cycle, color, reason): a TypeError.  The
\* other two loops keep a status that no statement returns.
loop_process_contig(g, cycle) ==
    IF same_color(cycle) THEN Misapplied(g)
    ELSE Unreturned(Then(loop_dual_color(g, cycle, SortedGroups(cycle), 1, FALSE),
                         LAMBDA a : loop_off_chain(a.g, cycle,
                                                   Sorted(chain_all_hints(cycle, BOOLEAN, 0, 1)),
                                                   1, a.ch)))

\* Loop.loop_process.
loop_process(g, cycle) ==
    IF loop_contig(cycle) THEN loop_process_contig(g, cycle)
    ELSE IF Len(cycle[1][1][1]) # 1 THEN Fail(g)
    ELSE IF is_complete(g[cycle[1][1][1][1]]) THEN Ok(g, FALSE)
    ELSE IF loop_strong(cycle)
         THEN purge_hints(g, {cycle[1][1][1][1]},
                          g[cycle[1][1][1][1]].hints \ {cycle[1][1][2]})
    ELSE IF loop_weak(cycle)
         THEN purge_hints(g, {cycle[1][1][1][1]}, {cycle[1][1][2]})
    ELSE Ok(g, FALSE)

\* The state of Loop.loop and Loop.run: the board, how the call ended, the
\* status, the loops found so far (all), and whether a walk began after the
\* board had changed (late).
Looped(g, st, ch, all, late) == [g |-> g, st |-> st, ch |-> ch, all |-> all, late |-> late]

RECURSIVE loop_cycles(_, _, _, _, _, _)
\* The loop of Loop.loop over the loops walked from one seed.
loop_cycles(g, cycles, k, all, status, late) ==
    IF k > Len(cycles) THEN Looped(g, "ok", status, all, late)
    ELSE IF \E x \in all : loop_duplicate(cycles[k], x)
         THEN loop_cycles(g, cycles, k + 1, all, status, late)
         ELSE With(loop_process(g, cycles[k]),
                   LAMBDA r : IF r.st # "ok" THEN Looped(r.g, r.st, FALSE, all, late)
                              ELSE With(all \cup {cycles[k]},
                                        LAMBDA found : loop_cycles(r.g, cycles, k + 1, found,
                                                                   status \/ r.ch, late)))

RECURSIVE loop(_, _, _, _, _, _, _, _, _)
\* Loop.loop for the hint i, at the k-th node of the list get_incomplete()
\* gave when the loop began; g0 is the board Loop.run began with.  The test
\* `i in node.get_hints()` is a TypeError for a node that has a value by
\* now, whose get_hints() is None.
loop(g0, g, i, biloc_only, group_limit, nodes, k, all, late) ==
    IF k > Len(nodes) THEN Looped(g, "ok", FALSE, all, late)
    ELSE IF is_complete(g[nodes[k]]) THEN Looped(g, "error", FALSE, all, late)
    ELSE IF i \notin g[nodes[k]].hints
         THEN loop(g0, g, i, biloc_only, group_limit, nodes, k + 1, all, late)
         ELSE With(loop_walk(g, << << << <<nodes[k]>>, i >>, FALSE >> >>,
                             biloc_only, group_limit),
              LAMBDA cycles :
                 With(loop_cycles(g, cycles, 1, all, FALSE, late \/ g # g0),
                      LAMBDA r : IF r.st # "ok" \/ r.ch THEN r
                                 ELSE loop(g0, r.g, i, biloc_only, group_limit, nodes, k + 1,
                                           r.all, r.late)))

RECURSIVE Loop_run_from(_, _, _, _, _, _)
\* Loop.run from the hint i on.
Loop_run_from(g0, g, i, biloc_only, group_limit, late) ==
    IF i > 9 THEN Looped(g, "ok", FALSE, {}, late)
    ELSE With(Sorted(get_incomplete(g)),
         LAMBDA nodes :
            With(loop(g0, g, i, biloc_only, group_limit, nodes, 1, {}, late),
                 LAMBDA r : IF r.st # "ok" \/ r.ch THEN r
                            ELSE Loop_run_from(g0, r.g, i + 1, biloc_only, group_limit,
                                               r.late)))

\* Loop.run.
Loop_run(g, biloc_only, group_limit) == Loop_run_from(g, g, 1, biloc_only, group_limit, FALSE)

\* X-CYCLE, GROUPED-X-CYCLE, AIC and GROUPED-AIC: biloc_only, group_limit.
LoopKinds == {<<TRUE, 0>>, <<TRUE, 1>>, <<FALSE, 0>>, <<FALSE, 2>>}

\* The biloc_only and group_limit of X-CYCLE, GROUPED-X-CYCLE, AIC and
\* GROUPED-AIC, and those a ForcingChain is constructed with by default.
ChainKinds == {<<TRUE, 0>>, <<TRUE, 1>>, <<FALSE, 0>>, <<FALSE, 2>>, <<FALSE, 1>>}

\* ------------------------------------------------------------------------
\* strategy/forcing_chain.py: the web of a forcing chain
\* ------------------------------------------------------------------------

\* The web is the dict `chain`: a function from the locations it holds to
\* <<fore, back>>, the lists of the locations found from the location and
\* of the locations it was found from.

\* ForcingChain.forcing_chain_add_link.
forcing_chain_add_link(chain, loc, to, forward) ==
    With(IF loc \in DOMAIN chain THEN chain ELSE chain @@ (loc :> << <<>>, <<>> >>),
         LAMBDA c : [c EXCEPT ![loc] = IF forward THEN <<Append(c[loc][1], to), c[loc][2]>>
                                       ELSE <<c[loc][1], Append(c[loc][2], to)>>])

forcing_chain_has_link(chain, loc) == loc \in DOMAIN chain

\* None, where a location is expected.
NoLoc == <<>>

\* ForcingChain.forcing_chain_back_link: back[0], or None.
forcing_chain_back_link(chain, loc) ==
    IF chain[loc][2] # <<>> THEN chain[loc][2][1] ELSE NoLoc

RECURSIVE forcing_chain_path(_, _, _)
\* The loop of forcing_chain_find_path, left after n back links at most.
forcing_chain_path(chain, loc, n) ==
    IF forcing_chain_back_link(chain, loc) = NoLoc \/ n = 0 THEN <<loc>>
    ELSE Append(forcing_chain_path(chain, forcing_chain_back_link(chain, loc), n - 1), loc)

\* ForcingChain.forcing_chain_find_path: from the origin to the location.
forcing_chain_find_path(chain, loc) ==
    forcing_chain_path(chain, loc, Cardinality(DOMAIN chain))

\* ForcingChain.forcing_chain_find_links.
forcing_chain_find_links(g, chain, loc, biloc_only, group_limit) ==
    chain_find_links(g, loc[1],
                     IF forcing_chain_has_link(chain, loc)
                     THEN Cardinality(chain_group_links(forcing_chain_find_path(chain, loc)))
                     ELSE 0,
                     biloc_only, group_limit)

\* The first loop of forcing_chain_walk linking a location already in the
\* web as well.
forcing_chain_link_known(st, loc, to) ==
    [chain |-> forcing_chain_add_link(forcing_chain_add_link(st.chain, loc, to, TRUE),
                                      to, loc, FALSE),
     nlocs |-> IF forcing_chain_has_link(st.chain, to) THEN st.nlocs ELSE st.nlocs \cup {to}]

\* One turn of the first loop of forcing_chain_walk, st = [chain, nlocs].
forcing_chain_link(st, loc, to) ==
    IF forcing_chain_has_link(st.chain, to) THEN st
    ELSE [chain |-> forcing_chain_add_link(forcing_chain_add_link(st.chain, loc, to, TRUE),
                                           to, loc, FALSE),
          nlocs |-> st.nlocs \cup {to}]

RECURSIVE forcing_chain_links(_, _, _, _)
\* The first loop of forcing_chain_walk.
forcing_chain_links(st, loc, links, k) ==
    IF k > Len(links) THEN st
    ELSE With(forcing_chain_link(st, loc, <<links[k], ~loc[2]>>),
              LAMBDA t : forcing_chain_links(t, loc, links, k + 1))

\* forcing_chain_walk ends with `for nloc in nlocs: forcing_chain_walk(nloc,
\* chain)`: the nested calls are the calls of a list of locations to walk,
\* the locations a call found put in front of the rest.  A walk is [chain,
\* found, walked, todo]: the web, that list (todo), and for the properties
\* what each location was found from when it was put in nlocs (found) and
\* the locations forcing_chain_walk was called with, in order (walked).
Web(chain, found, walked, todo) ==
    [chain |-> chain, found |-> found, walked |-> walked, todo |-> todo]

\* ForcingChain.forcing_chain_walk for the first location to walk, up to
\* its nested calls.
forcing_chain_walk_only(g, w, biloc_only, group_limit) ==
    With(Head(w.todo),
         LAMBDA loc :
            With(forcing_chain_find_links(g, w.chain, loc, biloc_only, group_limit),
                 LAMBDA f :
                    With(forcing_chain_links([chain |-> w.chain, nlocs |-> {}], loc,
                                             SortedLinks(IF loc[2] THEN f.w \cup f.s
                                                         ELSE f.s \cup f.gl), 1),
                         LAMBDA st :
                            With(SortedLinks({to[1] : to \in st.nlocs}),
                                 LAMBDA links :
                                    Web(st.chain,
                                        w.found @@ [to \in st.nlocs \ DOMAIN w.found |-> loc],
                                        Append(w.walked, loc),
                                        [k \in 1..Len(links) |-> <<links[k], ~loc[2]>>]
                                            \o Tail(w.todo))))))

RECURSIVE forcing_chain_walk_pending(_, _, _, _, _)
\* At most n calls of forcing_chain_walk, until none is left to make; the n
\* calls are made as two halves, one after the other.
forcing_chain_walk_pending(g, w, n, biloc_only, group_limit) ==
    IF w.todo = <<>> THEN w
    ELSE IF n = 1 THEN forcing_chain_walk_only(g, w, biloc_only, group_limit)
    ELSE With(forcing_chain_walk_pending(g, w, n \div 2, biloc_only, group_limit),
              LAMBDA v : forcing_chain_walk_pending(g, v, n - (n \div 2),
                                                    biloc_only, group_limit))

\* No more calls of forcing_chain_walk than this are followed.
MaxWalked == 1000

\* ForcingChain.forcing_chain_walk from an origin on an empty dict.
forcing_chain_walk(g, origin, biloc_only, group_limit) ==
    forcing_chain_walk_pending(g, Web(<<>>, <<>>, <<>>, <<origin>>), MaxWalked,
                               biloc_only, group_limit)

\* NISHIO FORCING-CHAIN and DIGIT FORCING-CHAIN: biloc_only, group_limit.
ForcingKinds == {<<FALSE, 2>>}

\* ------------------------------------------------------------------------
\* strategy/medusa.py: the edges of a graph
\* ------------------------------------------------------------------------

\* The dict of a graph: a function from its locations to the lists of the
\* locations connected from them.

\* MedusaBase.medusa_add connecting the two locations whether or not the
\* connection was made from the other end.
medusa_add_both(graph, next, loc) ==
    With(IF next \in DOMAIN graph THEN graph ELSE graph @@ (next :> <<>>),
         LAMBDA gr : [graph |-> IF loc # NoLoc THEN [gr EXCEPT ![loc] = Append(gr[loc], next)]
                                ELSE gr,
                      status |-> next \notin DOMAIN graph])

\* MedusaBase.medusa_add: the graph, and the status returned (loc is NoLoc
\* for None).
medusa_add(graph, next, loc) ==
    With(IF next \in DOMAIN graph THEN graph ELSE graph @@ (next :> <<>>),
         LAMBDA gr : [graph |-> IF loc # NoLoc /\ \A k \in 1..Len(gr[next]) : gr[next][k] # loc
                                THEN [gr EXCEPT ![loc] = Append(gr[loc], next)]
                                ELSE gr,
                      status |-> next \notin DOMAIN graph])

RECURSIVE medusa_add_each(_, _, _, _)
\* The first loop of medusa_walk, st = [graph, locs].
medusa_add_each(st, loc, nexts, k) ==
    IF k > Len(nexts) THEN st
    ELSE With(medusa_add(st.graph, nexts[k], loc),
              LAMBDA a : medusa_add_each([graph |-> a.graph,
                                          locs |-> IF a.status THEN Append(st.locs, nexts[k])
                                                   ELSE st.locs],
                                         loc, nexts, k + 1))

\* The links of a set in the order they are gone through.
SortedNodeLinks(S) ==
    With(SortedLinks({<< <<l[1]>>, l[2] >> : l \in S}),
         LAMBDA x : [k \in 1..Len(x) |-> <<x[k][1][1], x[k][2]>>])

\* medusa_walk ends with `for next in locs: self.medusa_walk(next, graph)`:
\* the nested calls are the calls of a list of locations to walk (todo), the
\* new locations of a call put in front of the rest.  This is medusa_walk
\* for the first of them, up to its nested calls.
medusa_walk_only(g, simple, w) ==
    With(Head(w.todo),
         LAMBDA loc :
            With(SortedNodeLinks(medusa_find_links(g, loc[1], simple)),
                 LAMBDA links :
                    With(medusa_add_each(
                             [graph |-> IF DOMAIN w.graph = {}
                                        THEN medusa_add(w.graph, loc, NoLoc).graph
                                        ELSE w.graph,
                              locs |-> <<>>],
                             loc, [k \in 1..Len(links) |-> <<links[k], ~loc[2]>>], 1),
                         LAMBDA st : [graph |-> st.graph, todo |-> st.locs \o Tail(w.todo)])))

RECURSIVE medusa_walk_pending(_, _, _, _)
\* At most n calls of medusa_walk, until none is left to make; the n calls
\* are made as two halves, one after the other.
medusa_walk_pending(g, simple, w, n) ==
    IF w.todo = <<>> THEN w
    ELSE IF n = 1 THEN medusa_walk_only(g, simple, w)
    ELSE With(medusa_walk_pending(g, simple, w, n \div 2),
              LAMBDA v : medusa_walk_pending(g, simple, v, n - (n \div 2)))

\* MedusaBase.medusa_walk on an empty dict: the dict of the graph of loc.
medusa_walk_dict(g, simple, loc) ==
    medusa_walk_pending(g, simple, [graph |-> <<>>, todo |-> <<loc>>], MaxWalked)

\* ------------------------------------------------------------------------
\* strategy/almost_locked_set.py, strategy/als.py: ALS
\* ------------------------------------------------------------------------

\* An ALS is a set of nodes.

\* Node.is_related, Node.has_hint.
is_related(c, d) == RowOf(c) = RowOf(d) \/ ColOf(c) = ColOf(d) \/ BoxOf(c) = BoxOf(d)

has_hint(g, c, hint) == g[c].has /\ hint \in g[c].hints

als_all_hints(g, als) == UNION {g[x].hints : x \in {y \in als : ~is_complete(g[y])}}

\* AlmostLockedSet.als_formed.
als_formed(g, nodes, related) ==
    /\ Cardinality(als_all_hints(g, nodes)) = Cardinality(nodes) + 1
    /\ related \/ \A x, y \in nodes : y # x => is_related(x, y)

\* AlmostLockedSet.als_find_in_lots on every lot, with no sizes given: the
\* combinations of one node or more of the incomplete nodes of a lot.
als_find_in_lots(g) ==
    UNION {{als \in SUBSET Lot_get_incomplete(g, Lots[k]) : als # {} /\ als_formed(g, als, TRUE)} :
              k \in 1..27}

\* The hints of als_urc_hints that are restricted: every node of als1 that
\* has the hint is related to every node of als2 that has it.
Restricted(g, als1, als2) ==
    {hint \in als_all_hints(g, als1) \cap als_all_hints(g, als2) :
        \A x \in {n \in als1 : has_hint(g, n, hint)} :
            \A y \in {n \in als2 : has_hint(g, n, hint)} : is_related(x, y)}

\* AlmostLockedSet.als_urc_hints: (rcs, intersect - rcs).
als_urc_hints(g, als1, als2) ==
    [rcs |-> Restricted(g, als1, als2),
     ucs |-> (als_all_hints(g, als1) \cap als_all_hints(g, als2)) \ Restricted(g, als1, als2)]

\* AlmostLockedSet.als_related.
als_related(g, als, hint) == join_related({x \in als : has_hint(g, x, hint)})

\* The nodes that see every node that has the hint in one of the two ALS.
als_overlap_either(g, als1, als2, hint) ==
    als_related(g, als1, hint) \cup als_related(g, als2, hint)

\* The nodes the hint is purged from: those that see every node of the two
\* ALS that has it at the time.
als_overlap(g, als1, als2, hint) == als_related(g, als1, hint) \cap als_related(g, als2, hint)

RECURSIVE als_purge_each(_, _, _, _, _, _)
\* The loop of als_solo, and the last loop of als_dual, over the hints.
als_purge_each(g, als1, als2, hints, k, status) ==
    IF k > Len(hints) THEN Ok(g, status)
    ELSE IF test_purge(g, als_overlap(g, als1, als2, hints[k]), {hints[k]})
         THEN Then(purge_hints(g, als_overlap(g, als1, als2, hints[k]), {hints[k]}),
                   LAMBDA r : als_purge_each(r.g, als1, als2, hints, k + 1, TRUE))
         ELSE als_purge_each(g, als1, als2, hints, k + 1, status)

\* ALS.als_solo.
als_solo(g, als1, als2, ucs) == als_purge_each(g, als1, als2, Sorted(ucs), 1, FALSE)

RECURSIVE als_excluded(_, _, _, _, _)
\* The loop of als_dual over the hints of one ALS that are not restricted.
als_excluded(g, als, hints, k, status) ==
    IF k > Len(hints) THEN Ok(g, status)
    ELSE IF test_purge(g, als_related(g, als, hints[k]), {hints[k]})
         THEN Then(purge_hints(g, als_related(g, als, hints[k]), {hints[k]}),
                   LAMBDA r : als_excluded(r.g, als, hints, k + 1, TRUE))
         ELSE als_excluded(g, als, hints, k + 1, status)

\* ALS.als_dual.
als_dual(g, als1, als2, rcs, ucs) ==
    Then(als_excluded(g, als1, Sorted(als_all_hints(g, als1) \ rcs), 1, FALSE),
         LAMBDA a :
            Then(als_excluded(a.g, als2, Sorted(als_all_hints(a.g, als2) \ rcs), 1, a.ch),
                 LAMBDA b : als_purge_each(b.g, als1, als2, Sorted(rcs \cup ucs), 1, b.ch)))

\* ALS.als with the hints als_urc_hints returned.
als_paired(g, als1, als2, urc) ==
    IF urc.rcs = {} THEN Ok(g, FALSE)
    ELSE IF Cardinality(urc.rcs) = 1 THEN als_solo(g, als1, als2, urc.ucs)
    ELSE IF Cardinality(urc.rcs) = 2 THEN als_dual(g, als1, als2, urc.rcs, urc.ucs)
    ELSE Raise(g)

\* ALS.als.
als(g, als1, als2) == als_paired(g, als1, als2, als_urc_hints(g, als1, als2))

\* ------------------------------------------------------------------------
\* The functions of the techniques, applied to inputs drawn from bounded sets
\* ------------------------------------------------------------------------

\* The links of the loops: the hint 1 in four nodes.
Links == {<< <<c>>, 1 >> : c \in {0, 3, 27, 30}}

\* The loops compared have no more links.
MaxLinks == 4

\* The loops: chains with an even number of links, of any colors.
Cycles ==
    UNION {[1..n -> Links \X BOOLEAN] : n \in {m \in 2..MaxLinks : m % 2 = 0}}

Rotations(c) == {Shifted(c, k) : k \in 1..Len(c)}

\* The chains the specification holds equivalent to the loop c.
Equivalents(c) == Rotations(c) \cup Rotations(chain_reverse_flip(c))

\* The chains a loop is compared with: its equivalents, and their flips.
Others(c) == Equivalents(c) \cup {chain_flip(d) : d \in Equivalents(c)}

\* The candidate lists of a board saved with its hints while it was being
\* solved; its other cells hold the digits of the solution.
SavedLists ==
    (4 :> {2, 4}) @@ (7 :> {2, 3}) @@ (8 :> {2, 4}) @@ (12 :> {5, 7}) @@ (14 :> {4, 7}) @@
    (16 :> {2, 5}) @@ (17 :> {2, 4, 5}) @@ (21 :> {5, 9}) @@ (22 :> {5, 9}) @@
    (57 :> {5, 9}) @@ (58 :> {5, 9}) @@ (62 :> {2, 5}) @@ (67 :> {3, 9}) @@
    (68 :> {1, 7}) @@ (70 :> {3, 9}) @@ (71 :> {1, 3}) @@ (76 :> {3, 4, 5}) @@
    (77 :> {1, 4}) @@ (79 :> {3, 5}) @@ (80 :> {3, 5})

\* The items Sudoku.load finds in the text of that board.
SavedItems ==
    [c \in Cells |->
        IF c \in DOMAIN SavedLists THEN [digit |-> 0, list |-> SavedLists[c]]
        ELSE [digit |-> Solution[c + 1], list |-> {}]]

\* The saved board, loaded, after Singleton.run.
SavedBoard == Singleton_run(Sudoku_load(SavedItems).g).g

\* The candidate lists of a second board saved with its hints: the puzzle
\* whose text is [4,8]57126[8,9]3[4,8]369784[1,2][1,2]5[4,8]2159367[4,8]9124653875843
\* 79[1,2][1,2]6736812549173958462245637[1,8]9[1,8]698241753.
PairedLists ==
    (0 :> {4, 8}) @@ (6 :> {8, 9}) @@ (8 :> {4, 8}) @@ (15 :> {1, 2}) @@ (16 :> {1, 2}) @@
    (18 :> {4, 8}) @@ (26 :> {4, 8}) @@ (42 :> {1, 2}) @@ (43 :> {1, 2}) @@
    (69 :> {1, 8}) @@ (71 :> {1, 8})

\* The items Sudoku.load finds in the text of that board.
PairedItems ==
    [c \in Cells |->
        IF c \in DOMAIN PairedLists THEN [digit |-> 0, list |-> PairedLists[c]]
        ELSE [digit |-> Solution[c + 1], list |-> {}]]

\* The second saved board, loaded, after Singleton.run.
PairedBoard == Singleton_run(Sudoku_load(PairedItems).g).g

\* The boards a technique is run on: a puzzle after Singleton.run.
Boards == {Singleton_run(Sudoku_load(Items(holes, 0, 0)).g).g : holes \in HoleSets}

UnitInit ==
    /\ options = <<Options_init, Options_init>>
    /\ plans = << <<>>, <<>> >>
    /\ sudoku = 1
    /\ trial = 0
    /\ sch = <<Idle, Idle>>
    /\ tr = NoTrial
    /\ passlog = << <<>>, <<>> >>
    /\ nsingle = <<0, 0>>
    /\ before = BlankGrid
    /\ tally = NoTally
    /\ \/ /\ grids = <<BlankGrid, BlankGrid>>
          /\ catalog = Catalog
          /\ \E c \in Cycles : ev = [kind |-> "cycle", cycle |-> c]
       \/ /\ \E b \in Boards : grids = <<b, BlankGrid>>
          /\ catalog = Catalog
          /\ ev = [kind |-> "board"]
       \/ /\ grids = <<BlankGrid, BlankGrid>>
          /\ catalog \in Catalogs
          /\ ev = [kind |-> "options"]
       \/ /\ grids = <<SavedBoard, BlankGrid>>
          /\ catalog = Catalog
          /\ ev = [kind |-> "saved"]
       \/ /\ grids = <<PairedBoard, BlankGrid>>
          /\ catalog = Catalog
          /\ ev = [kind |-> "paired"]

\* Loop.loop compares a loop it found with one it found before.
LoopDuplicate ==
    /\ ev.kind = "cycle"
    /\ \E other \in Others(ev.cycle) :
          ev' = [kind |-> "duplicate", cycle |-> ev.cycle, other |-> other,
                 forth |-> loop_duplicate(ev.cycle, other),
                 back |-> loop_duplicate(other, ev.cycle)]
    /\ UNCHANGED <<grids, sudoku, trial, catalog, options, plans, sch, tr, passlog,
                   nsingle, before, tally>>

\* SimpleColoring (simple) or TDMedusa looks for the graphs of the hint i.
Medusa ==
    /\ ev.kind = "board"
    /\ \E i \in Values, simple \in BOOLEAN :
          LET r == medusa(grids[1], i, simple)
          IN  /\ grids' = [grids EXCEPT ![1] = r.g]
              /\ ev' = [kind |-> "medusa", hint |-> i, simple |-> simple,
                        graphs |-> r.graphs, walked |-> r.walked,
                        dicts |-> [k \in 1..Len(r.walked) |->
                                     medusa_walk_dict(grids[1], simple,
                                                      <<r.walked[k].seed, TRUE>>)],
                        outcome |-> r.st, ch |-> r.ch, was |-> grids[1]]
    /\ UNCHANGED <<sudoku, trial, catalog, options, plans, sch, tr, passlog, nsingle,
                   before, tally>>

\* Playbook.get_plan with no options given: a copy of Playbook.default.
GetPlan ==
    /\ ev.kind = "options"
    /\ plans' = [plans EXCEPT ![1] = get_plan(Options_copy(options[1]), catalog)]
    /\ ev' = [kind |-> "plan"]
    /\ UNCHANGED <<grids, sudoku, trial, catalog, options, sch, tr, passlog, nsingle,
                   before, tally>>

\* chain_find_links is called on a link of the board, with no group link
\* or one group link on the chain, or on a group link it returned before.
ChainFindLinks ==
    /\ \E link \in IF ev.kind = "board"
                    THEN {<< <<c>>, i >> : c \in get_incomplete(grids[1]), i \in Values}
                    ELSE IF ev.kind = "links" THEN ev.glinks ELSE {} :
          /\ link[2] \in grids[1][link[1][1]].hints
          /\ \E kind \in ChainKinds, group_count \in 0..1 :
                LET r == chain_find_links(grids[1], link, group_count, kind[1], kind[2])
                IN  ev' = [kind |-> "links", link |-> link, group_count |-> group_count,
                           biloc_only |-> kind[1], group_limit |-> kind[2],
                           slinks |-> r.s, wlinks |-> r.w, glinks |-> r.gl]
    /\ UNCHANGED <<grids, sudoku, trial, catalog, options, plans, sch, tr, passlog, nsingle,
                   before, tally>>

\* Loop.loop walks from the hint i of a node, with the polarity False.
LoopWalk ==
    /\ ev.kind = "board"
    /\ \E c \in get_incomplete(grids[1]), kind \in LoopKinds :
          \E i \in grids[1][c].hints :
             ev' = [kind |-> "walk", seed |-> << <<c>>, i >>,
                    biloc_only |-> kind[1], group_limit |-> kind[2],
                    cycles |-> Loops(loop_walk(grids[1], << << << <<c>>, i >>, FALSE >> >>,
                                               kind[1], kind[2]))]
    /\ UNCHANGED <<grids, sudoku, trial, catalog, options, plans, sch, tr, passlog, nsingle,
                   before, tally>>

\* X-CYCLE, GROUPED-X-CYCLE, AIC or GROUPED-AIC executes.
LoopRun ==
    /\ ev.kind \in {"board", "saved"}
    /\ \E kind \in LoopKinds :
          /\ ev' = With(Loop_run(grids[1], kind[1], kind[2]),
                        LAMBDA r : [kind |-> "loop", biloc_only |-> kind[1],
                                    group_limit |-> kind[2], outcome |-> r.st, ch |-> r.ch,
                                    late |-> r.late, was |-> grids[1], now |-> r.g])
          /\ grids' = [grids EXCEPT ![1] = ev'.now]
    /\ UNCHANGED <<sudoku, trial, catalog, options, plans, sch, tr, passlog, nsingle,
                   before, tally>>

\* NishioForcingChain (color TRUE) or DigitForcingChain (either color) walks
\* the web of an origin.
ForcingChainWalk ==
    /\ ev.kind = "board"
    /\ \E c \in get_incomplete(grids[1]), kind \in ForcingKinds, color \in BOOLEAN :
          \E i \in grids[1][c].hints :
             ev' = With(forcing_chain_walk(grids[1], << << <<c>>, i >>, color >>,
                                           kind[1], kind[2]),
                        LAMBDA w : [kind |-> "web", origin |-> << << <<c>>, i >>, color >>,
                                    chain |-> w.chain, found |-> w.found,
                                    walked |-> w.walked, todo |-> w.todo])
    /\ UNCHANGED <<grids, sudoku, trial, catalog, options, plans, sch, tr, passlog, nsingle,
                   before, tally>>

\* ALS.run comes to a pair of the ALS it found in the lots: two sets with
\* no node in common.
ALSPair ==
    /\ ev.kind \in {"board", "paired"}
    /\ \E als1, als2 \in als_find_in_lots(grids[1]) :
          /\ als1 \cap als2 = {}
          /\ ev' = With(als(grids[1], als1, als2),
                        LAMBDA r : [kind |-> "als", als1 |-> als1, als2 |-> als2,
                                    urc |-> als_urc_hints(grids[1], als1, als2),
                                    outcome |-> r.st, ch |-> r.ch, was |-> grids[1],
                                    now |-> r.g])
          /\ grids' = [grids EXCEPT ![1] = ev'.now]
    /\ UNCHANGED <<sudoku, trial, catalog, options, plans, sch, tr, passlog, nsingle,
                   before, tally>>

UnitNext ==
    \/ LoopDuplicate \/ Medusa \/ GetPlan \/ ChainFindLinks \/ LoopWalk \/ LoopRun
    \/ ForcingChainWalk \/ ALSPair

UnitSpec == UnitInit /\ [][UnitNext]_vars

\* ------------------------------------------------------------------------
\* Properties
\* ------------------------------------------------------------------------

\* The complete nodes of every row, column and box of g differ in value.
Distinct(g) ==
    \A k \in 1..Len(Lots) : \A c, d \in LotCells(Lots[k]) :
        (c # d /\ is_complete(g[c]) /\ is_complete(g[d])) => g[c].value # g[d].value

\* No incomplete node of g has for a hint the value of a complete related
\* node.
Consistent(g) ==
    \A c \in Cells : (~is_complete(g[c]) /\ g[c].has) =>
        \A d \in find_related(c) : is_complete(g[d]) => g[d].value \notin g[c].hints

\* The node m is what a call may make of the incomplete node n: n itself,
\* n completed with one of its hints, or n with hints that are not empty
\* and, where n had hints, fewer of them and none new.
Narrowed(n, m) ==
    \/ m = n
    \/ is_complete(m) /\ (n.has => m.value \in n.hints)
    \/ /\ ~is_complete(m)
       /\ m.has
       /\ m.hints # {}
       /\ n.has => (m.hints \subseteq n.hints /\ m.hints # n.hints)

\* The nodes a call completed.
Completed(was, g) == {c \in Cells : ~is_complete(was[c]) /\ is_complete(g[c])}

\* C1: on one board the hints of a node never gain a value: every call of
\* the contract leaves an incomplete node as it was, or with a non-empty
\* strict subset of its hints, or complete with one of its hints as value;
\* and a purge of all the hints of a node raises LogicException and
\* stores nothing in that node.
C1_HintsOnlyShrink ==
    [][\A c \in Cells :
          /\ ~is_complete(grids[1][c]) => Narrowed(grids[1][c], grids'[1][c])
          /\ is_complete(grids[1][c]) => grids'[1][c] = grids[1][c]
          /\ (ev'.kind = "purge" /\ ev'.node = c /\ ev'.hints = grids[1][c].hints)
                => (ev'.outcome = "raise" /\ grids'[1][c] = grids[1][c])]_vars

\* A purge of one hint left a node incomplete, with the rest of its hints.
C1_Witness ==
    /\ ev.kind = "purge"
    /\ ev.outcome = "ok"
    /\ ~is_complete(grids[1][ev.node])
    /\ grids[1][ev.node].hints = ev.was[ev.node].hints \ ev.hints
    /\ grids[1][ev.node].hints # ev.was[ev.node].hints

\* C2 (as stated): on the board of every plan, the master plan and the plan
\* of a trial, the complete nodes of every row, column and box differ in
\* value in every state after SINGLETON has run on that board without
\* raising.
C2_DistinctAfterSingleton ==
    \A f \in 1..2 :
        (sch[f].at \notin {"idle", "raised"} /\ nsingle[f] >= 1) => Distinct(Board(f))

PassEnded(f) == sch[f].at \in {"attack", "success", "impasse"}

\* The names of the techniques of plan f at the given level.
Tier(f, level) ==
    UNION {{plans[f][k].strategies[m] : m \in 1..Len(plans[f][k].strategies)} :
             k \in {j \in 1..Len(plans[f]) : plans[f][j].level = level}}

\* The names of all the techniques of plan f.
Planned(f) == UNION {Tier(f, plans[f][k].level) : k \in 1..Len(plans[f])}

\* The names of the techniques executed so far in the pass of plan f.
Executed(f) == {passlog[f][i].name : i \in 1..Len(passlog[f])}

\* C4 (as stated): Plan.attack returns True only on a board whose nodes
\* are all complete and whose rows, columns and boxes hold distinct
\* values, and returns False only on a board that is not complete, after a
\* pass that executed every technique of the plan, none with progress.
C4_AttackResult ==
    \A f \in 1..2 :
        /\ sch[f].at = "success" =>
              (Sudoku_is_complete(Board(f)) /\ Distinct(Board(f)))
        /\ sch[f].at = "impasse" =>
              /\ ~Sudoku_is_complete(Board(f))
              /\ Executed(f) = Planned(f)
              /\ \A i \in 1..Len(passlog[f]) : passlog[f][i].outcome = "none"

\* C5: in every pass of a plan, the techniques are executed by ascending
\* level and none twice; a technique of a level is executed only after
\* every technique of every lower level was executed in the pass without
\* progress; when the pass has ended, every technique of the last level it
\* reached was executed, unless the board became complete or a
\* LogicException was raised; and a pass begins at the lowest level, so
\* that after a level with progress the next technique executed is of the
\* lowest level.
C5_SchedulerOrdering ==
    \A f \in 1..2 :
        LET log == passlog[f]
        IN  /\ \A i, j \in 1..Len(log) :
                  i < j => (log[i].level <= log[j].level /\ log[i].name # log[j].name)
            /\ \A i \in 1..Len(log) : \A k \in 1..Len(plans[f]) :
                  plans[f][k].level < log[i].level =>
                      \A n \in Tier(f, plans[f][k].level) :
                          \E j \in 1..(i - 1) : log[j].name = n /\ log[j].outcome = "none"
            /\ \A i, j \in 1..Len(log) :
                  (i < j /\ log[i].outcome = "progress") => log[j].level = log[i].level
            /\ (PassEnded(f) /\ log # <<>>) =>
                  \/ Sudoku_is_complete(Board(f))
                  \/ Tier(f, log[Len(log)].level) \subseteq Executed(f)
            /\ log # <<>> => log[1].level = plans[f][1].level
            /\ \A i \in 1..Len(log) : log[i].name \in Tier(f, log[i].level)

\* A pass has ended in which a technique reported progress, left the board
\* incomplete, and a later technique of its level was executed all the same.
C5_Witness ==
    \E f \in 1..2 :
        /\ PassEnded(f)
        /\ ~Sudoku_is_complete(Board(f))
        /\ \E i, j \in 1..Len(passlog[f]) :
              /\ i < j
              /\ passlog[f][i].outcome = "progress"
              /\ passlog[f][j].level = passlog[f][i].level

\* C6 (as stated): in one Plan.attack SINGLETON is executed once at most,
\* and it is the first technique executed.
C6_SingletonOnce ==
    \A f \in 1..2 :
        /\ nsingle[f] <= 1
        /\ (passlog[f] # <<>> /\ "SINGLETON" \in Planned(f)) =>
              passlog[f][1].name = "SINGLETON"

\* The values the hypotheses of the attempt under way give to their nodes.
Hypotheses == {<<tr.cursor[i][1], tr.cursor[i][2]>> : i \in 1..Len(tr.cursor)}

C8_CommitSolved ==
    ev.kind = "commit" => (Sudoku_is_complete(Board(1)) /\ Distinct(Board(1)))

\* The board g with the hint of the hypothesis p purged from its node, and
\* nothing else changed.
PurgedOnly(g, p) == [g EXCEPT ![p[1]].hints = @ \ {p[2]}]

\* C9 (as stated): whenever the plan of a trial raised LogicException, the
\* master board is left with the hint of the first hypothesis purged from
\* its node, and nothing else changed.
C9_ContradictionPurges ==
    ev.kind = "contradiction" => Board(1) = PurgedOnly(ev.was, ev.first)

\* The purge of the first hypothesis happened: its hint is gone from its
\* node, which keeps the rest of its hints or is complete with the last of
\* them; the other nodes changed only as update_node narrows them, and
\* not at all when the node stayed incomplete.
FirstPurged ==
    LET c == ev.first[1]
        h == ev.first[2]
    IN  /\ h \in ev.was[c].hints
        /\ IF is_complete(Board(1)[c])
           THEN ev.was[c].hints = {h, Board(1)[c].value} /\ Board(1)[c].value # h
           ELSE Board(1) = PurgedOnly(ev.was, ev.first)
        /\ \A d \in Cells : Narrowed(ev.was[d], Board(1)[d]) \/ is_complete(ev.was[d])

\* C9 (amended): TrialOne purges the hint of its hypothesis from the
\* master board at the LogicException.  TrialTwo and TrialThree purge
\* nothing at a LogicException; after the attempts with one first
\* hypothesis they purge its hint if none of these attempts ended at an
\* impasse, and nothing otherwise.
C9_PurgeRule ==
    /\ (ev.kind = "contradiction" /\ Len(ev.hints) = 1 /\ ev.outcome = "ok") => FirstPurged
    /\ (ev.kind = "contradiction" /\ Len(ev.hints) > 1) => Board(1) = ev.was
    /\ (ev.kind = "verdict" /\ tally.impasse = 0 /\ ev.outcome = "ok") => FirstPurged
    /\ (ev.kind = "verdict" /\ tally.impasse > 0) => Board(1) = ev.was

\* TrialTwo or TrialThree purged the hint of a first hypothesis after all
\* the attempts with it, more than one, raised LogicException.
C9_Witness ==
    /\ ev.kind = "verdict"
    /\ ev.outcome = "ok"
    /\ tally.raised >= 2
    /\ tally.impasse = 0
    /\ Board(1) # ev.was

\* C10 (as stated): the techniques enabled in the options of the plan of a
\* trial are all of one level.
C10_OneLevelEnabled ==
    sch[2].at # "idle" =>
        \A s, t \in Names :
            (enabled(options[NestedOptions], s) /\ enabled(options[NestedOptions], t))
                => get_level(options[NestedOptions], s) = get_level(options[NestedOptions], t)

\* C10 (amended): in the options of the plan of a trial, every technique
\* of a level above 1 is disabled and every other one is as in the options
\* of the master plan; the plan of a trial holds no technique of a level
\* above 1, and so no trial technique; and the options and the plan of
\* the master are those Playbook.solve was called with.
C10_NestedOptions ==
    /\ sch[2].at # "idle" =>
          /\ \A s \in Names :
                enabled(options[NestedOptions], s) <=>
                    (enabled(options[1], s) /\ get_level(options[1], s) <= 1)
          /\ Planned(2) \cap TrialNames = {}
          /\ \A k \in 1..Len(plans[2]) : plans[2][k].level <= 1
          /\ Planned(2) = {s \in Planned(1) : get_level(options[1], s) <= 1}
    /\ \E k \in 1..Len(OptionSets) :
          /\ options[1] = OptionsFor(OptionSets[k])
          /\ plans[1] = get_plan(options[1], catalog)

\* The plan of a trial is at work with SINGLETON and a technique of level
\* 1 enabled, and the trial techniques of the master plan disabled.
C10_Witness ==
    /\ sch[2].at = "iterate"
    /\ enabled(options[NestedOptions], "SINGLETON")
    /\ enabled(options[NestedOptions], "NAKED-GROUP")
    /\ \E s \in TrialNames : enabled(options[1], s) /\ ~enabled(options[NestedOptions], s)
    /\ Current(2) = "NAKED-GROUP"

\* C11 (as stated): Sudoku.load gives no board with one value twice in a
\* row, column or box, and Sudoku.validate raises LogicException on every
\* board that has one.
C11_DuplicatesRejected ==
    /\ ev.kind = "none" => Distinct(Board(1))
    /\ \A f \in 1..2 :
          (sch[f].at # "idle" /\ ~Distinct(Board(f))) => Sudoku_validate(Board(f)) = "raise"

\* The result r of Sudoku.load has the values of the board b and, with
\* hints, the hints of its incomplete nodes; without, no hints at all.
Reloaded(b, hints, r) ==
    /\ r.st = "ok"
    /\ \A c \in Cells :
          /\ r.g[c].value = b[c].value
          /\ (hints /\ ~is_complete(b[c])) => (r.g[c].has /\ r.g[c].hints = b[c].hints)
          /\ ~hints => ~r.g[c].has

\* The result t of b.save(hints) is a text, and loading it gives b back.
Saved(b, hints, t) == t.st = "ok" /\ Reloaded(b, hints, Sudoku_load_text(t.text))

RoundTrip(b, hints) == Saved(b, hints, save(b, hints))

\* C12 (as stated): the master board, from the state Sudoku.load leaves it
\* in to every state the techniques bring it to, is saved without an
\* error in both forms, and loading the saved text gives its values back
\* and, in the form with hints, the hints of its incomplete nodes.
C12_RoundTrip ==
    sch[1].at \in {"attack", "success", "impasse"} =>
        (RoundTrip(Board(1), TRUE) /\ RoundTrip(Board(1), FALSE))

\* C13 (as stated): the board of a trial, which Sudoku.snap makes, has in
\* every node but those of the hypotheses the value, the hints and the
\* preset flag of the node of the master board; it is another grid than
\* that of the master board; and Sudoku.copy gives the master board the
\* 81 nodes of the board of the trial.
C13_SnapCopiesNodes ==
    [][/\ ev'.kind = "try" =>
             /\ trial' # sudoku'
             /\ \A c \in Cells :
                   (\A i \in 1..Len(ev'.hints) : ev'.hints[i][1] # c)
                       => grids'[trial'][c] = grids[sudoku][c]
       /\ ev'.kind = "commit" => grids'[sudoku'] = grids[trial]]_vars

\* C14 (as stated): the preset flag of a node of the master board never
\* changes, so that it tells the clues of the puzzle as it does when the
\* puzzle is loaded, and the value of a preset node never changes.
C14_PresetIsClue ==
    [][\A c \in Cells :
          /\ grids'[sudoku'][c].preset = grids[sudoku][c].preset
          /\ grids[sudoku][c].preset => grids'[sudoku'][c].value = grids[sudoku][c].value]_vars


\* C15 (as stated): when the STEP hook vetoes every mutation of a NAKED-GROUP
\* execution, the board is unchanged, no contradiction is raised and the
\* execution reports no progress.
C15_VetoReportsNoProgress ==
    (ev.kind = "step" /\ ev.answer = "s") =>
        (grids[1] = ev.was /\ ev.outcome = "ok" /\ ~ev.ch)

\* The part of C15 that the code keeps: a vetoed mutation changes no node.
C15_VetoLeavesBoard ==
    (ev.kind = "step" /\ ev.answer = "s") => grids[1] = ev.was


\* The last entry of a pass log.
LastLog(log) == log[Len(log)]

\* An execution of a deductive technique that reports no progress leaves
\* the board as it was.
C16_DeductiveIdempotent ==
    [][(ev'.kind = "execute" /\ LastLog(passlog'[ev'.f]).outcome = "none") => grids' = grids]_vars

\* C16 (as stated): an execution of any technique, trial techniques
\* included, that reports no progress leaves the board as it was when the
\* execution began (so that a second execution reports no progress too).
C16_NoProgressUnchanged ==
    [][/\ (ev'.kind = "execute" /\ LastLog(passlog'[ev'.f]).outcome = "none") => grids' = grids
       /\ ev'.kind = "exhausted" => grids'[sudoku'] = ev'.was]_vars


\* C17 (as stated): for a contiguous loop c of even length and a chain d that
\* is a rotation of c or of the reversed, color-flipped c, loop_duplicate
\* answers true for (c, d) and for (d, c).
C17_DuplicateSymmetric ==
    (/\ ev.kind = "duplicate"
     /\ loop_contig(ev.cycle)
     /\ ev.other \in Equivalents(ev.cycle)) => (ev.forth /\ ev.back)

\* The part of C17 that the code keeps: the comparison from the contiguous
\* loop to its equivalents is true.
C17_DuplicateForth ==
    (/\ ev.kind = "duplicate"
     /\ loop_contig(ev.cycle)
     /\ ev.other \in Equivalents(ev.cycle)) => ev.forth

\* C18 (as stated): Plan.attack returns False only after a pass in which no
\* technique reported progress; a contradiction in the plan of a trial is
\* pending at the trial technique that started it; and a contradiction that
\* reaches Game.solve is caught there: no exception leaves it, and what it
\* prints for a contradiction differs from what it prints for an impasse.
C18_ContradictionCaught ==
    /\ \A f \in 1..2 :
          sch[f].at = "impasse" =>
              \A i \in 1..Len(passlog[f]) : passlog[f][i].outcome = "none"
    /\ sch[2].at = "raised" => sch[1].at = "trial"
    /\ ev.kind = "game" =>
          /\ ~ev.raised
          /\ ev.printed = "Sorry. It's too hard!" => ev.outcome = "impasse"

\* The part of C18 that the code keeps: False is returned for no progress
\* only, the contradiction of a trial is pending at its trial technique,
\* and "Sorry. It's too hard!" is printed for an impasse only.
C18_ImpasseIsNoProgress ==
    /\ \A f \in 1..2 :
          sch[f].at = "impasse" =>
              \A i \in 1..Len(passlog[f]) : passlog[f][i].outcome = "none"
    /\ sch[2].at = "raised" => sch[1].at = "trial"
    /\ (ev.kind = "game" /\ ev.printed = "Sorry. It's too hard!") => ev.outcome = "impasse"


\* The graph walked from a seed that has no exclusive link.
Lonely(w) == medusa_find_links(ev.was, w.seed, ev.simple) = {}

\* C19: in MedusaBase.medusa the graph walked from a seed without an
\* exclusive link has exactly one location and is not among the graphs
\* handed to medusa_process, each of which has at least two locations; when
\* no graph is kept the board is left as it was and no progress is reported.
C19_LonelySeedDiscarded ==
    ev.kind = "medusa" =>
        /\ \A k \in 1..Len(ev.walked) :
              Lonely(ev.walked[k]) =>
                  /\ Cardinality(ev.walked[k].graph) = 1
                  /\ \A j \in 1..Len(ev.graphs) : ev.graphs[j] # ev.walked[k].graph
        /\ \A j \in 1..Len(ev.graphs) : Cardinality(ev.graphs[j]) >= 2
        /\ ev.graphs = <<>> => (grids[1] = ev.was /\ ~ev.ch)

\* A run in which one seed had no exclusive link and another graph led to
\* an elimination.
C19_Witness ==
    /\ ev.kind = "medusa"
    /\ \E k \in 1..Len(ev.walked) : Lonely(ev.walked[k])
    /\ ev.graphs # <<>>
    /\ ev.ch
    /\ grids[1] # ev.was


\* The place of the technique in the plan: the index of its tier in the
\* order Plan.attack goes through the tiers.
Place(name) == CHOOSE k \in 1..Len(plans[1]) : name \in Tier(1, plans[1][k].level)

\* C20: in the plan of the default configuration TRIAL-1, TRIAL-2 and
\* TRIAL-3 stand in strictly increasing tiers and every other enabled
\* technique, one without an entry in the default level table included,
\* stands in a tier strictly below TRIAL-1, so that no deductive technique
\* is first executed after a trial technique in a pass.
C20_TrialsLast ==
    ev.kind = "plan" =>
        /\ Place("TRIAL-1") < Place("TRIAL-2")
        /\ Place("TRIAL-2") < Place("TRIAL-3")
        /\ \A name \in Planned(1) \ TrialNames :
              /\ Place(name) < Place("TRIAL-1")
              /\ get_level(options[1], name) < get_level(options[1], "TRIAL-1")

\* The part of C20 that holds: the trial techniques stand in strictly
\* increasing tiers, every technique of the default configuration is in the
\* plan, and those with an entry in the default level table come before
\* TRIAL-1.
C20_TabledBeforeTrials ==
    ev.kind = "plan" =>
        /\ Planned(1) = Names
        /\ Place("TRIAL-1") < Place("TRIAL-2")
        /\ Place("TRIAL-2") < Place("TRIAL-3")
        /\ \A name \in (Planned(1) \cap DOMAIN DEFAULT_LEVELS) \ TrialNames :
              Place(name) < Place("TRIAL-1")


\* The values missing from all three lots of the node c of the board g.
Missing(g, c) ==
    get_missing_values(g, Lots[get_lots(c)[1]])
        \cap get_missing_values(g, Lots[get_lots(c)[2]])
        \cap get_missing_values(g, Lots[get_lots(c)[3]])

\* The hints refresh_node is to leave in the node c of the board g: the
\* hints it had, or all the values when it had none, that are missing from
\* its row, column and box.
Refreshed(g, c) == (IF g[c].has THEN g[c].hints ELSE Values) \cap Missing(g, c)

\* C21: refresh_node on a node without a value leaves it with the hints it
\* had (all the values when it had none) that are missing from its row,
\* column and box, and with the value when one hint is left; it raises when
\* no hint is left, also when the missing values of the three lots have a
\* value in common but none that the node holds; on a node with a value it
\* changes nothing and returns False.
C21_RefreshNode ==
    ev.kind = "refresh" =>
        IF is_complete(ev.was[ev.node])
        THEN ev.outcome = "ok" /\ ~ev.ch /\ grids[1] = ev.was
        ELSE IF Refreshed(ev.was, ev.node) = {} THEN ev.outcome = "raise"
        ELSE IF Cardinality(Refreshed(ev.was, ev.node)) = 1
        THEN Refreshed(ev.was, ev.node) = {grids[1][ev.node].value}
        ELSE /\ ~is_complete(grids[1][ev.node])
             /\ grids[1][ev.node].has
             /\ grids[1][ev.node].hints = Refreshed(ev.was, ev.node)
             /\ ev.outcome = "ok"

\* refresh_node raised on a node whose hints are all ruled out by its lots
\* although the lots still miss a common value.
C21_Witness ==
    /\ ev.kind = "refresh"
    /\ ~is_complete(ev.was[ev.node])
    /\ ev.was[ev.node].has
    /\ Missing(ev.was, ev.node) # {}
    /\ Refreshed(ev.was, ev.node) = {}
    /\ ev.outcome = "raise"


\* The nodes without a value, other than the origin, that hold the hint of
\* the link in the lot Lots[k].
Holders(k) ==
    {y \in LotCells(Lots[k]) \ GroupOf(ev.link) :
        grids[1][y].value = 0 /\ ev.link[2] \in grids[1][y].hints}

\* The lots of the origin of a single-node link.
OriginLots == {get_lots(ev.link[1][1])[j] : j \in 1..3}

\* C22: chain_find_links for the link (node, v) of a single node returns
\* the node x as a strong link exactly when x is the only other node
\* without a value holding v in some lot of the origin, and as a weak link
\* exactly when some lot of the origin has x among two or more such nodes;
\* it returns a group link only when the origin is a single node, fewer
\* than group_limit group links are on the chain, and the link holds all
\* the weak nodes of one lot, which lie in one box and in one row or one
\* column.
C22_FindLinks ==
    ev.kind = "links" =>
        /\ Len(ev.link[1]) = 1 =>
              \A x \in Cells :
                 /\ << <<x>>, ev.link[2] >> \in ev.slinks
                       <=> \E k \in OriginLots : Holders(k) = {x}
                 /\ << <<x>>, ev.link[2] >> \in ev.wlinks
                       <=> \E k \in OriginLots : x \in Holders(k) /\ Cardinality(Holders(k)) >= 2
        /\ \A gl \in ev.glinks :
              /\ Len(ev.link[1]) = 1
              /\ ev.group_count < ev.group_limit
              /\ gl[2] = ev.link[2]
              /\ \E k \in OriginLots : GroupOf(gl) = Holders(k) /\ Cardinality(Holders(k)) >= 2
              /\ Cardinality({BoxOf(c) : c \in GroupOf(gl)}) = 1
              /\ \/ Cardinality({RowOf(c) : c \in GroupOf(gl)}) = 1
                 \/ Cardinality({ColOf(c) : c \in GroupOf(gl)}) = 1

\* A single-node link with a strong link, a weak link and a group link.
C22_Witness ==
    /\ ev.kind = "links"
    /\ Len(ev.link[1]) = 1
    /\ \E l \in ev.slinks : l[2] = ev.link[2]
    /\ \E l \in ev.wlinks : l[2] = ev.link[2]
    /\ ev.glinks # {}


\* Two places of the chain hold links of one hint with overlapping groups.
Clash(cycle, j, k) ==
    /\ cycle[j][1][2] = cycle[k][1][2]
    /\ GroupOf(cycle[j][1]) \cap GroupOf(cycle[k][1]) # {}

\* How many of loop_contig, loop_strong and loop_weak the chain satisfies.
KindsOf(cycle) ==
    Cardinality({n \in 1..3 : IF n = 1 THEN loop_contig(cycle)
                             ELSE IF n = 2 THEN loop_strong(cycle)
                             ELSE loop_weak(cycle)})

\* C23: every chain loop_walk returns from a single-node seed of polarity
\* False has an even number of links, at least 4 and at most length_limit,
\* holds no two links of one hint with overlapping nodes other than the
\* equal first and last link of a discontiguous loop, and satisfies exactly
\* one of loop_contig, loop_strong and loop_weak.
C23_WalkedLoops ==
    ev.kind = "walk" =>
        \A cycle \in ev.cycles :
            /\ Len(cycle) % 2 = 0
            /\ Len(cycle) >= 4
            /\ Len(cycle) <= length_limit
            /\ KindsOf(cycle) = 1
            /\ \A j, k \in 1..Len(cycle) :
                  (j < k /\ Clash(cycle, j, k)) =>
                      /\ j = 1
                      /\ k = Len(cycle)
                      /\ cycle[j][1] = cycle[k][1]
                      /\ ~loop_contig(cycle)

\* A walk that returned a contiguous loop, a discontiguous loop and a loop
\* of length_limit links.
C23_Witness ==
    /\ ev.kind = "walk"
    /\ \E cycle \in ev.cycles : loop_contig(cycle)
    /\ \E cycle \in ev.cycles : loop_weak(cycle) \/ loop_strong(cycle)
    /\ \E cycle \in ev.cycles : Len(cycle) = length_limit


\* C24: a run of a loop technique whose loops removed a hint from a node
\* reports progress, and began no walk from a seed after the removal.
C24_ReturnsOnElimination ==
    (ev.kind = "loop" /\ ev.outcome = "ok" /\ grids[1] # ev.was) => (ev.ch /\ ~ev.late)

\* The part of C24 that holds: a run that reports progress has changed the
\* board and began no walk after the change from another seed's loops.
C24_ProgressIsElimination ==
    (ev.kind = "loop" /\ ev.ch) => (ev.outcome = "ok" /\ grids[1] # ev.was /\ ~ev.late)

\* C26: after forcing_chain_walk from an origin on an empty web, every
\* location of the web but the origin has exactly the back link recorded
\* when it was found, the origin has none, the back links lead from every
\* location to the origin along a path of alternating colors, no location
\* is walked twice, and no call is left to make.
C26_BackLinks ==
    ev.kind = "web" =>
        /\ ev.todo = <<>>
        /\ \A loc \in DOMAIN ev.chain :
              /\ loc = ev.origin <=> forcing_chain_back_link(ev.chain, loc) = NoLoc
              /\ loc # ev.origin =>
                    /\ loc \in DOMAIN ev.found
                    /\ forcing_chain_back_link(ev.chain, loc) = ev.found[loc]
                    /\ ev.found[loc] \in DOMAIN ev.chain
              /\ With(forcing_chain_find_path(ev.chain, loc),
                      LAMBDA path :
                         /\ path[1] = ev.origin
                         /\ Len(path) <= Cardinality(DOMAIN ev.chain)
                         /\ \A k \in 1..(Len(path) - 1) : path[k][2] # path[k + 1][2])
        /\ \A j, k \in 1..Len(ev.walked) : j # k => ev.walked[j] # ev.walked[k]
        /\ \A k \in 1..Len(ev.walked) :
              ev.walked[k] = ev.origin \/ ev.walked[k] \in DOMAIN ev.chain
        /\ DOMAIN ev.chain \subseteq {ev.walked[k] : k \in 1..Len(ev.walked)}

\* A web where a location is reached again from another one after it was
\* found, three links or more from the origin, through a group link.
C26_Witness ==
    /\ ev.kind = "web"
    /\ \E loc \in DOMAIN ev.chain :
          /\ Len(forcing_chain_find_path(ev.chain, loc)) >= 4
          /\ \E other \in DOMAIN ev.chain :
                /\ other # ev.found[loc]
                /\ other[2] # loc[2]
                /\ loc[1] \in With(chain_find_links(grids[1], other[1], 0, FALSE, 2),
                                   LAMBDA f : f.s \cup f.w)
    /\ \E loc \in DOMAIN ev.chain : chain_is_group_link(loc[1])

\* C25: when Loop.run comes to a contiguous loop with a cell that holds two
\* loop candidates of one color, it goes on without an error.
C25_SameColorCompletes == ev.kind = "loop" => ev.outcome # "arguments"

\* How many times x is in the list.
Times(list, x) == Cardinality({k \in 1..Len(list) : list[k] = x})

\* The walks of the event whose graph was kept.
Kept == {k \in 1..Len(ev.walked) : medusa_keep(ev.walked[k].graph)}

\* C27: of the graphs MedusaBase.medusa builds for a hint, each holds with
\* a link every link exclusively linked to it, in the other color, and
\* connects opposite colors only; each pair of exclusively linked links is
\* connected from one of its two ends and once; and no link is in two of the
\* graphs that are kept.
C27_GraphsClosed ==
    ev.kind = "medusa" =>
        /\ \A k \in 1..Len(ev.walked) :
              /\ ev.dicts[k].todo = <<>>
              /\ DOMAIN ev.dicts[k].graph = ev.walked[k].graph
              /\ \A loc \in DOMAIN ev.dicts[k].graph :
                    /\ \A l \in medusa_find_links(ev.was, loc[1], ev.simple) :
                          /\ <<l, ~loc[2]>> \in DOMAIN ev.dicts[k].graph
                          /\ Times(ev.dicts[k].graph[loc], <<l, ~loc[2]>>)
                                + Times(ev.dicts[k].graph[<<l, ~loc[2]>>], loc) = 1
                    /\ \A j \in 1..Len(ev.dicts[k].graph[loc]) :
                          /\ ev.dicts[k].graph[loc][j][2] # loc[2]
                          /\ ev.dicts[k].graph[loc][j][1]
                                \in medusa_find_links(ev.was, loc[1], ev.simple)
        /\ \A j, k \in Kept :
              j # k => medusa_all_links(ev.walked[j].graph, Values, BOOLEAN)
                          \cap medusa_all_links(ev.walked[k].graph, Values, BOOLEAN) = {}
        /\ ev.graphs = [k \in 1..Len(ev.graphs) |->
                           ev.walked[CHOOSE j \in Kept :
                                        Cardinality({x \in Kept : x < j}) = k - 1].graph]

\* The connections of a dict: <<location, place in its list>>.
Connections(graph) == {x \in (DOMAIN graph) \X (1..9) : x[2] <= Len(graph[x[1]])}

\* Two graphs are kept, and one of them has as many connections as
\* locations: a cycle, gone through from both of its ends.
C27_Witness ==
    /\ ev.kind = "medusa"
    /\ Len(ev.graphs) >= 2
    /\ \E k \in Kept :
          Cardinality(Connections(ev.dicts[k].graph))
              >= Cardinality(DOMAIN ev.dicts[k].graph)

\* The candidates the node c held on the board g: its hints, or its value.
Held(g, c) == IF is_complete(g[c]) THEN {g[c].value} ELSE g[c].hints

\* The candidates the event took from the node c.
Taken(c) == IF is_complete(ev.was[c]) THEN {} ELSE ev.was[c].hints \ Held(grids[1], c)

\* The nodes the event resolved.
Resolved == {c \in Cells : ~is_complete(ev.was[c]) /\ is_complete(grids[1][c])}

\* The node c sees every node of the two ALS that had the hint h.
SeesEvery(c, h) ==
    \A d \in ev.als1 \cup ev.als2 : has_hint(ev.was, d, h) => (d # c /\ is_related(c, d))

\* C28 as stated: the restricted and the unrestricted hints of two disjoint
\* ALS partition their common hints; ALS.als changes nothing when no hint is
\* restricted; when one is, every candidate it takes from a node is an
\* unrestricted hint, the node sees every node of the two ALS that had it,
\* and is in neither ALS.
C28_OnlyUnrestricted ==
    ev.kind = "als" =>
        /\ ev.urc.rcs \cap ev.urc.ucs = {}
        /\ ev.urc.rcs \cup ev.urc.ucs
              = als_all_hints(ev.was, ev.als1) \cap als_all_hints(ev.was, ev.als2)
        /\ ev.urc.rcs = {} => (grids[1] = ev.was /\ ~ev.ch)
        /\ Cardinality(ev.urc.rcs) = 1 =>
              \A c \in Cells : \A h \in Taken(c) :
                  /\ h \in ev.urc.ucs
                  /\ SeesEvery(c, h)
                  /\ c \notin ev.als1 \cup ev.als2

\* C28: the same, but for the candidates taken by the refresh of the nodes
\* related to a node that ALS.als resolved: the value of a resolved node,
\* taken from a node related to it, which may be a node of either ALS.
C28_UnrestrictedOrCascade ==
    ev.kind = "als" =>
        /\ ev.urc.rcs \cap ev.urc.ucs = {}
        /\ ev.urc.rcs \cup ev.urc.ucs
              = als_all_hints(ev.was, ev.als1) \cap als_all_hints(ev.was, ev.als2)
        /\ ev.urc.rcs = {} => (grids[1] = ev.was /\ ~ev.ch)
        /\ Cardinality(ev.urc.rcs) = 1 =>
              \A c \in Cells : \A h \in Taken(c) :
                  \/ /\ h \in ev.urc.ucs
                     /\ SeesEvery(c, h)
                     /\ c \notin ev.als1 \cup ev.als2
                  \/ \E d \in Resolved \cap find_related(c) : d # c /\ grids[1][d].value = h

\* Two ALS with one restricted hint: ALS.als took an unrestricted hint from
\* a node, which resolved it, and its value was taken from a node of an ALS.
C28_Witness ==
    /\ ev.kind = "als"
    /\ Cardinality(ev.urc.rcs) = 1
    /\ \E c \in Resolved : Taken(c) \cap ev.urc.ucs # {}
    /\ \E c \in ev.als1 \cup ev.als2 : Taken(c) # {}

\* C29 (as stated): an execution of a technique in the Scheduler that
\* changed the board of its plan reports progress, whether it is a
\* deductive technique or the run of a trial technique that returns after
\* its last attempt.
C29_ChangeReported ==
    [][/\ (ev'.kind = "execute" /\ grids'[GridOf(ev'.f)] # grids[GridOf(ev'.f)])
             => LastLog(passlog'[ev'.f]).outcome \in {"progress", "raise"}
       /\ (ev'.kind = "exhausted" /\ grids'[sudoku'] # ev'.was)
             => LastLog(passlog'[1]).outcome = "progress"]_vars

\* The part of C29 about purge_hints: a call that returns has changed the
\* board exactly when it returns True.
C29_PurgeExact ==
    (ev.kind = "purge" /\ ev.outcome = "ok") => (ev.ch <=> grids[1] # ev.was)



\* The candidates of a node: none when it has its value, its hints when it
\* has a list of them, every digit when it has none yet.
Candidates(n) == IF is_complete(n) THEN {} ELSE IF n.has THEN n.hints ELSE Values

RECURSIVE Total(_, _, _)
\* The number of candidates of the nodes lo..hi of the board g.
Total(g, lo, hi) ==
    IF lo = hi THEN Cardinality(Candidates(g[lo]))
    ELSE Total(g, lo, (lo + hi) \div 2) + Total(g, (lo + hi) \div 2 + 1, hi)

\* The board b has fewer candidates than the board a, or fewer nodes
\* without a value.
Reduced(a, b) ==
    \/ Total(b, 0, 80) < Total(a, 0, 80)
    \/ Cardinality(get_incomplete(b)) < Cardinality(get_incomplete(a))

\* The board b has fewer nodes without a list of hints than the board a.
Listed(a, b) ==
    Cardinality({c \in Cells : ~is_complete(b[c]) /\ ~b[c].has})
        < Cardinality({c \in Cells : ~is_complete(a[c]) /\ ~a[c].has})

\* The step is the end of an execution in plan f that reports progress.
Progressed(f) ==
    /\ Len(passlog'[f]) = Len(passlog[f]) + 1
    /\ LastLog(passlog'[f]).outcome = "progress"

\* The board of plan f when the execution that ends with the step began.
Began(f) == IF LastLog(passlog'[f]).name \in TrialNames THEN tr.start ELSE grids[GridOf(f)]

\* The candidates of a board, a node without a list of hints counting for
\* one more than a node with every digit in its list.
Weight(g) == Total(g, 0, 80) + Cardinality({c \in Cells : ~is_complete(g[c]) /\ ~g[c].has})

\* Where Plan.attack and Plan.iterate of a plan stand, as a number that
\* every step makes smaller while the board stays as it is: a pass that has
\* seen progress is followed by the head of the loop of Plan.attack, the
\* head by a pass that has seen none, and that pass by the return.
Stand(s) ==
    IF s.at \in {"iterate", "trial"} THEN (IF s.status THEN 4 ELSE 2)
    ELSE IF s.at = "attack" THEN 3
    ELSE IF s.at \in {"success", "impasse", "raised"} THEN 1
    ELSE 0

\* The strategies the pass of a plan has yet to come to.
Ahead(s) == IF s.at \in {"iterate", "trial"} THEN 1000 - (20 * s.level + s.idx) ELSE 0

\* The hypotheses the loops of the run() of a trial technique have yet to
\* come to, in the order of the loops: the first, the second, the third.
Untried ==
    IF sch[1].at # "trial" THEN <<1001, 0, 0>>
    ELSE IF tr.stage = "start" THEN <<1000, 1000, 1000>>
    ELSE IF tr.stage = "judged" THEN <<1000 - Key(tr.cursor[1]), 0, 0>>
    ELSE [i \in 1..3 |-> IF i <= Len(tr.cursor) THEN 1000 - Key(tr.cursor[i]) ELSE 1000]

\* The variant of the program: the candidates of the master board, where
\* its plan stands, the hypotheses yet to try, and for a trial under way the
\* candidates of the trial board and where its plan stands.
Variant ==
    <<Weight(Board(1)), Stand(sch[1]), Ahead(sch[1])>> \o Untried
        \o (IF sch[1].at = "trial" /\ tr.stage = "trying"
            THEN <<1, Weight(Board(2)), Stand(sch[2]), Ahead(sch[2])>>
            ELSE <<0, 0, 0, 0>>)

\* The sequence a comes before the sequence b of the same length.
Before(a, b) ==
    \E i \in 1..Len(a) : a[i] < b[i] /\ \A j \in 1..(i - 1) : a[j] = b[j]

\* The step makes the variant smaller.
Smaller == \E a \in {Variant'}, b \in {Variant} : Before(a, b)

\* A run of TRIAL-1 tries a hint that its node held when the run began and
\* that comes after the hint it tried before.
OneTrialPerPair ==
    (ev'.kind = "try" /\ tr'.arity = 1) =>
        /\ tr'.cursor[1][1] \in get_incomplete(tr'.start)
        /\ tr'.cursor[1][2] \in tr'.start[tr'.cursor[1][1]].hints
        /\ tr.stage # "start" => Key(tr.cursor[1]) < Key(tr'.cursor[1])

=============================================================================
